---- MODULE Spec2Model ----
(***************************************************************************)
(* A model of the Mistral workflow engine: the cron trigger processor of   *)
(* mistral/services/periodic.py over the cron trigger table of             *)
(* mistral/db/v2/sqlalchemy/api.py, and the workflow execution state       *)
(* machine of mistral/engine/workflows.py.                                 *)
(***************************************************************************)
EXTENDS Integers, Sequences, FiniteSets, TLC

\* ------------------------------------------------------------------------
\* Bounds of the model.
\* ------------------------------------------------------------------------
\* Number of engine processes that run the periodic tasks.
NumEngines == 2
\* The clock of the cron processor runs from 1 to MaxTime.
MaxTime == 2
\* The largest remaining_executions a cron trigger is created with.
MaxRemaining == 2

\* A nullable column: None, or Some(v).
None == <<>>
Some(v) == <<v>>
Val(x) == x[1]

Engines == 1..NumEngines
TriggerNames == {"ct1", "ct2"}
Times == 0..MaxTime
\* A cron pattern is modelled by its period; the pattern of each trigger.
PatternOf == [n \in TriggerNames |-> IF n = "ct1" THEN 1 ELSE 2]

VARIABLES
    \* --- cron trigger processor ---
    now,            \* the wall clock read by get_next_cron_triggers
    cron_triggers,  \* table cron_triggers_v2: name -> None | Some(row)
    created_with,   \* name -> remaining_executions the trigger was created with
    engine,         \* engine -> position in process_cron_triggers_v2
    started,        \* <<trigger name, next_execution_time>> -> number of
                    \* start_workflow calls made for it
    \* --- workflow engine ---
    wf_exs,         \* workflow executions, by id
    task_exs,       \* task executions, by id
    action_exs,     \* action executions, by id
    delayed_calls,  \* scheduled _send_result_to_parent_workflow calls
    starting,       \* the Workflow.start in progress: None | Some(position)
    raised,         \* what the last engine operation raised: None | Some(e)
    \* --- delayed call scheduler ---
    delayed_calls_v2,   \* table delayed_calls_v2: id -> None | Some(row)
    sweeper,        \* scheduler -> position in its sweep of the table
    claimed,        \* id -> number of claims that reported one modified row
    invoked,        \* id -> number of invocations of the call's target
    \* --- engine workers ---
    worker,         \* worker -> position in its handling of a result
    locks,          \* the row locks held: <<workflow execution id, worker>>
    \* --- workflow definitions ---
    workflow_definitions,   \* table workflow_definitions_v2: name -> None | Some(row)
    deleting,       \* the delete_workflow_definition in progress: None | Some(name)
    db_raised,      \* what the last DB API call raised: None | Some(e)
    \* --- specification parser ---
    parsing,        \* a call of a spec factory: its argument and its outcome
    \* --- action definitions ---
    action_definitions, \* table action_definitions_v2: its rows, as inserted
    caller          \* caller -> position in its call of the DB API

cronvars == <<now, cron_triggers, created_with, engine, started>>
wfvars == <<wf_exs, task_exs, action_exs, delayed_calls, starting, raised>>
schedvars == <<delayed_calls_v2, sweeper, claimed, invoked>>
lockvars == <<worker, locks>>
\* What the scheduler leaves alone besides the cron triggers and the
\* executions.
defvars == <<workflow_definitions, deleting, db_raised>>
parsevars == <<parsing>>
actionvars == <<action_definitions, caller>>
extravars == <<lockvars, defvars, parsevars, actionvars>>
\* What the cron processor and the workflow engine leave alone.
othervars == <<schedvars, extravars>>
vars == <<now, cron_triggers, created_with, engine, started,
          wf_exs, task_exs, action_exs, delayed_calls, starting, raised,
          delayed_calls_v2, sweeper, claimed, invoked, worker, locks,
          workflow_definitions, deleting, db_raised, parsing,
          action_definitions, caller>>

\* ------------------------------------------------------------------------
\* Cron trigger table (db/v2/sqlalchemy/api.py).
\* ------------------------------------------------------------------------
\* triggers.get_next_execution_time(pattern, start_time).
get_next_execution_time(pattern, start_time) == start_time + pattern

\* _get_cron_trigger(name): the row, or None.
_get_cron_trigger(table, name) == table[name]

\* get_next_cron_triggers(time): the rows due before `time`; any order that
\* is sorted by next_execution_time.
IsSortedByTime(s) ==
    \A i \in 1..Len(s), j \in 1..Len(s) :
        i < j => s[i].next_execution_time <= s[j].next_execution_time

DueNames(table, time) ==
    {n \in TriggerNames :
        /\ table[n] # None
        /\ Val(table[n]).next_execution_time < time}

get_next_cron_triggers(table, time) ==
    {s \in UNION {[1..k -> {Val(table[n]) : n \in DueNames(table, time)}]
                    : k \in 0..Cardinality(TriggerNames)} :
        /\ Len(s) = Cardinality(DueNames(table, time))
        /\ \A n \in DueNames(table, time) : \E i \in 1..Len(s) : s[i].name = n
        /\ IsSortedByTime(s)}

\* update_on_match as it would be with the query_filter left out of the
\* WHERE clause.
update_on_match_unfiltered(table, name, id, query_filter, values) ==
    IF table[name] # None /\ Val(table[name]).id = id
    THEN <<[table EXCEPT ![name] = Some([Val(table[name]) EXCEPT
                !.next_execution_time = values.next_execution_time,
                !.remaining_executions = values.remaining_executions])], 1>>
    ELSE <<table, 0>>

\* update_on_match as it would be if the new next_execution_time were not
\* written.
update_on_match_keep_time(table, name, id, query_filter, values) ==
    IF /\ table[name] # None
       /\ Val(table[name]).id = id
       /\ Val(table[name]).next_execution_time = query_filter
    THEN <<[table EXCEPT ![name] = Some([Val(table[name]) EXCEPT
                !.remaining_executions = values.remaining_executions])], 1>>
    ELSE <<table, 0>>

\* The UPDATE of update_cron_trigger with query_filter: update_on_match on
\* the row id and the filter columns. <<table', modified_count>>.
update_on_match(table, name, id, query_filter, values) ==
    IF /\ table[name] # None
       /\ Val(table[name]).id = id
       /\ Val(table[name]).next_execution_time = query_filter
    THEN <<[table EXCEPT ![name] = Some([Val(table[name]) EXCEPT
                !.next_execution_time = values.next_execution_time,
                !.remaining_executions = values.remaining_executions])], 1>>
    ELSE <<table, 0>>

\* The DELETE of delete_cron_trigger: by row id; <<table', rowcount>>.
delete_by_id(table, name, id) ==
    IF table[name] # None /\ Val(table[name]).id = id
    THEN <<[table EXCEPT ![name] = None], 1>>
    ELSE <<table, 0>>

\* ------------------------------------------------------------------------
\* process_cron_triggers_v2 / advance_cron_trigger (services/periodic.py).
\* ------------------------------------------------------------------------
IdleEngine == [pc |-> "idle", todo |-> <<>>, ct |-> None, row_id |-> None,
               modified |-> FALSE, ctx |-> None]

\* advance_cron_trigger as it would be without the decrement.
DecrementRemaining_none(ct) == ct

\* The decrement of advance_cron_trigger on the engine's copy of the row.
DecrementRemaining(ct) ==
    IF ct.remaining_executions # None /\ Val(ct.remaining_executions) > 0
    THEN [ct EXCEPT !.remaining_executions = Some(Val(@) - 1)]
    ELSE ct

\* The engine's position after the iteration for one trigger: the finally
\* clause resets the auth context, and the loop goes on or the sweep ends.
NextIteration(en) ==
    [en EXCEPT !.pc = IF en.todo = <<>> THEN "idle" ELSE "loop",
               !.ct = None, !.row_id = None, !.modified = FALSE,
               !.ctx = None]

\* for t in triggers.get_next_cron_triggers(): the query.
GetNextCronTriggers(e) ==
    /\ engine[e].pc = "idle"
    /\ \E s \in get_next_cron_triggers(cron_triggers, now) :
        /\ s # <<>>
        /\ engine' = [engine EXCEPT ![e] = [IdleEngine EXCEPT
                        !.pc = "loop", !.todo = s]]
    /\ UNCHANGED <<now, cron_triggers, created_with, started, wfvars, othervars>>

\* One loop iteration up to the first statement of the db call: the
\* security context is set up, advance_cron_trigger decrements its copy and
\* picks delete or update, and delete_cron_trigger / update_cron_trigger
\* look the row up by name. No row: NotFoundException, which
\* advance_cron_trigger catches, so that nothing was modified.
BeginTrigger(e) ==
    /\ engine[e].pc = "loop"
    /\ engine[e].todo # <<>>
    /\ LET ct == DecrementRemaining(Head(engine[e].todo))
           row == _get_cron_trigger(cron_triggers, ct.name)
       IN engine' = [engine EXCEPT ![e] = [@ EXCEPT
                !.todo = Tail(@),
                !.ct = Some(ct),
                !.ctx = Some(ct.name),
                !.modified = FALSE,
                !.row_id = IF row = None THEN None ELSE Some(Val(row).id),
                !.pc = IF row = None THEN "advanced"
                       ELSE IF ct.remaining_executions = Some(0)
                            THEN "delete_exec" ELSE "update_exec"]]
    /\ UNCHANGED <<now, cron_triggers, created_with, started, wfvars, othervars>>

\* delete_cron_trigger: the DELETE statement and its rowcount.
DeleteTrigger(e) ==
    /\ engine[e].pc = "delete_exec"
    /\ LET ct == Val(engine[e].ct)
           r == delete_by_id(cron_triggers, ct.name, Val(engine[e].row_id))
       IN /\ cron_triggers' = r[1]
          /\ engine' = [engine EXCEPT ![e] = [@ EXCEPT
                !.modified = r[2] > 0, !.pc = "advanced"]]
    /\ UNCHANGED <<now, created_with, started, wfvars, othervars>>

\* update_cron_trigger: the guarded UPDATE and its modified count.
UpdateTrigger(e) ==
    /\ engine[e].pc = "update_exec"
    /\ LET ct == Val(engine[e].ct)
           next_time == get_next_execution_time(ct.pattern,
                                                ct.next_execution_time)
           r == update_on_match(cron_triggers, ct.name, Val(engine[e].row_id),
                    ct.next_execution_time,
                    [next_execution_time |-> next_time,
                     remaining_executions |-> ct.remaining_executions])
       IN /\ cron_triggers' = r[1]
          /\ engine' = [engine EXCEPT ![e] = [@ EXCEPT
                !.modified = r[2] > 0, !.pc = "advanced"]]
    /\ UNCHANGED <<now, created_with, started, wfvars, othervars>>

\* if modified: rpc.get_engine_client().start_workflow(...); the call may
\* raise, which is logged. finally: auth_ctx.set_ctx(None).
StartWorkflowCall(e) ==
    /\ engine[e].pc = "advanced"
    /\ engine[e].modified
    /\ LET ct == Val(engine[e].ct)
       IN started' = [started EXCEPT
                ![<<ct.name, ct.next_execution_time>>] = @ + 1]
    /\ engine' = [engine EXCEPT ![e] = NextIteration(@)]
    /\ UNCHANGED <<now, cron_triggers, created_with, wfvars, othervars>>

\* The trigger was modified by another engine: nothing is started.
SkipTrigger(e) ==
    /\ engine[e].pc = "advanced"
    /\ ~engine[e].modified
    /\ engine' = [engine EXCEPT ![e] = NextIteration(@)]
    /\ UNCHANGED <<now, cron_triggers, created_with, started, wfvars, othervars>>

\* The except clause of the loop: the message is built with
\* traceback.format_exc(e) and logged, after which the loop goes on; where
\* format_exc takes its argument for a limit and cannot compare it with a
\* number (Python 3), the clause raises TypeError itself, which leaves the
\* loop and ends the sweep. The finally clause resets the auth context in
\* both cases.
AfterException(en, logged) ==
    IF logged THEN NextIteration(en) ELSE IdleEngine

\* delete_cron_trigger or update_cron_trigger raises an error of the store
\* other than NotFoundException: nothing is modified.
AdvanceRaises(e, logged) ==
    /\ engine[e].pc \in {"delete_exec", "update_exec"}
    /\ engine' = [engine EXCEPT ![e] = AfterException(@, logged)]
    /\ UNCHANGED <<now, cron_triggers, created_with, started, wfvars, othervars>>

\* The trigger was advanced and start_workflow raises: no workflow is
\* started.
StartWorkflowRaises(e, logged) ==
    /\ engine[e].pc = "advanced"
    /\ engine[e].modified
    /\ engine' = [engine EXCEPT ![e] = AfterException(@, logged)]
    /\ UNCHANGED <<now, cron_triggers, created_with, started, wfvars, othervars>>

\* Time passes.
Tick ==
    /\ now < MaxTime
    /\ now' = now + 1
    /\ UNCHANGED <<cron_triggers, created_with, engine, started, wfvars, othervars>>

\* ------------------------------------------------------------------------
\* Workflow states and the transition table (mistral/workflow/states.py).
\* ------------------------------------------------------------------------
IDLE == "IDLE"
WAITING == "WAITING"
RUNNING == "RUNNING"
RUNNING_DELAYED == "DELAYED"
PAUSED == "PAUSED"
SUCCESS == "SUCCESS"
ERROR == "ERROR"

States == {IDLE, WAITING, RUNNING, RUNNING_DELAYED, PAUSED, SUCCESS, ERROR}

\* IDLE -> RUNNING -> {SUCCESS, ERROR, PAUSED}; PAUSED -> {RUNNING, ERROR,
\* SUCCESS}; {SUCCESS, ERROR} -> RUNNING.
_VALID_TRANSITIONS ==
    [s \in States |->
        CASE s = IDLE -> {RUNNING}
          [] s = RUNNING -> {SUCCESS, ERROR, PAUSED}
          [] s = PAUSED -> {RUNNING, ERROR, SUCCESS}
          [] s = SUCCESS -> {RUNNING}
          [] s = ERROR -> {RUNNING}
          [] OTHER -> {}]

is_valid_transition(from_state, to_state) ==
    /\ from_state \in States
    /\ to_state \in _VALID_TRANSITIONS[from_state]

is_completed(state) == state \in {SUCCESS, ERROR}
\* is_paused_or_completed as it would be if it took no account of PAUSED.
is_paused_or_completed_not_paused(state) == is_completed(state)

is_paused_or_completed(state) == state = PAUSED \/ is_completed(state)
is_waiting(state) == state = WAITING

\* ------------------------------------------------------------------------
\* Workflow definitions: the parsed specifications the engine runs.
\* ------------------------------------------------------------------------
TaskSpec(on_success, on_error, workflow) ==
    [on_success |-> on_success, on_error |-> on_error, workflow |-> workflow,
     join |-> None, output |-> "", publish |-> {}]

\* The terms of an expression: a literal, <% $.var %> for a variable of the
\* context, and <% $.task %> for the result of the task itself. An
\* expression is a sequence of terms; its value is a list of strings.
Lit(s) == [term |-> "lit", of |-> s]
Ref(var) == [term |-> "ref", of |-> var]
Result == [term |-> "result", of |-> ""]

\* A task specification with `action: std.echo output=...` and `publish:`,
\* a set of <<variable, expression>>.
Publishing(task_spec, output, publish) ==
    [task_spec EXCEPT !.output = output, !.publish = publish]

\* A task specification with join: all.
JoinAll(task_spec) == [task_spec EXCEPT !.join = Some("all")]

\* "wf": t1 runs t2 and t3 on success and t3 on error. "parent": p1 runs the
\* workflow "sub", which has the one task s1. "jn": j1 runs j2 and j3 on
\* success, each of which runs j4 on success, and j4 has join: all. "seq":
\* q1 to q4 run one after another; q1 and q2 publish the same variable and
\* q4 publishes an expression over what q2 and q3 published. "wi": the one
\* task e1, with-items, publishes its result. "jh": h1 and h2 both run h3
\* on success, h3 has join: all, and h2 runs h4 on error. "par": r1 and r2
\* run side by side, and r1 runs r3 on success. "pz": z1 and z2 run side by
\* side, and each has `on-success: pause`.
WorkflowSpecs ==
    [wf |-> [t1 |-> TaskSpec({"t2", "t3"}, {"t3"}, None),
             t2 |-> TaskSpec({}, {}, None),
             t3 |-> Publishing(TaskSpec({}, {}, None), "item", {})],
     par |-> [r1 |-> TaskSpec({"r3"}, {}, None),
              r2 |-> TaskSpec({}, {}, None),
              r3 |-> TaskSpec({}, {}, None)],
     parent |-> [p1 |-> TaskSpec({}, {}, Some("sub"))],
     sub |-> [s1 |-> TaskSpec({}, {}, None)],
     fan |-> [f1 |-> Publishing(TaskSpec({}, {"f4"}, None), "1",
                        {<<"var1", <<Result>>>>}),
              f2 |-> Publishing(TaskSpec({"f5"}, {}, None), "2",
                        {<<"var2", <<Result>>>>}),
              f3 |-> Publishing(TaskSpec({}, {"f4"}, None), "3",
                        {<<"var3", <<Result>>>>}),
              f4 |-> Publishing(TaskSpec({}, {}, None), "4",
                        {<<"var4", <<Result>>>>}),
              f5 |-> Publishing(TaskSpec({}, {}, None), "5",
                        {<<"var5", <<Result>>>>})],
     jh |-> [h1 |-> TaskSpec({"h3"}, {}, None),
             h2 |-> TaskSpec({"h3"}, {"h4"}, None),
             h3 |-> JoinAll(TaskSpec({}, {}, None)),
             h4 |-> TaskSpec({}, {}, None)],
     jn |-> [j1 |-> TaskSpec({"j2", "j3"}, {}, None),
             j2 |-> TaskSpec({"j4"}, {}, None),
             j3 |-> TaskSpec({"j4"}, {}, None),
             j4 |-> JoinAll(TaskSpec({}, {}, None))],
     pz |-> [z1 |-> TaskSpec({"pause"}, {}, None),
             z2 |-> TaskSpec({"pause"}, {}, None)],
     seq |-> [q1 |-> Publishing(TaskSpec({"q2"}, {}, None), "Hi",
                        {<<"greeting", <<Result>>>>}),
              q2 |-> Publishing(TaskSpec({"q3"}, {}, None), "Yo",
                        {<<"greeting", <<Result>>>>}),
              q3 |-> Publishing(TaskSpec({"q4"}, {}, None), "Morpheus",
                        {<<"to", <<Result>>>>}),
              q4 |-> Publishing(TaskSpec({}, {}, None), "",
                        {<<"result", <<Ref("greeting"), Ref("to")>>>>})],
     wi |-> [e1 |-> Publishing(TaskSpec({}, {}, None), "item",
                        {<<"result", <<Result>>>>})]]

\* The definitions a user starts.
TopLevelWorkflows == {"wf", "parent"}

\* get_with_items() of the task specifications: t3 of "wf" is a with-items
\* task, of one item, and e1 of "wi" is one over the empty list.
WithItemsTasks == {"e1", "t3"}

get_with_items(task_ex) == task_ex.name \in WithItemsTasks

\* with_items.get_count(task_ex): the length of the collection.
get_count(name) == IF name = "e1" THEN 0 ELSE 1

\* Task names in ascending order.
TaskOrder == <<"e1", "f1", "f2", "f3", "f4", "f5", "h1", "h2", "h3", "h4",
               "j1", "j2", "j3", "j4", "p1", "pause", "q1", "q2", "q3",
               "q4", "r1", "r2", "r3", "s1", "t1", "t2", "t3", "z1", "z2">>

get_tasks(wf_name) == DOMAIN WorkflowSpecs[wf_name]
get_task(wf_name, name) == WorkflowSpecs[wf_name][name]

\* The names of `names`, ascending.
SortedNames(names) == SelectSeq(TaskOrder, LAMBDA n : n \in names)

\* ------------------------------------------------------------------------
\* The store: workflow, task and action executions, delayed calls.
\* ------------------------------------------------------------------------
Db(wf, task, act, calls) ==
    [wf |-> wf, task |-> task, act |-> act, calls |-> calls]

\* The outcome of an operation: the store it leaves, and what it raised.
Outcome(db, exc) == [db |-> db, exc |-> exc]

WorkflowException(execution_id, state) ==
    Some([type |-> "WorkflowException", execution_id |-> execution_id,
          state |-> state])
InputException ==
    Some([type |-> "InputException", execution_id |-> None, state |-> ""])

TasksOf(db, w) ==
    {t \in 1..Len(db.task) : db.task[t].workflow_execution_id = w}

\* wf_utils.find_incomplete_task_executions
find_incomplete_task_executions(db, w) ==
    {t \in TasksOf(db, w) : ~is_completed(db.task[t].state)}

\* wf_utils.find_error_task_executions
find_error_task_executions(db, w) ==
    {t \in TasksOf(db, w) : db.task[t].state = ERROR}

\* ------------------------------------------------------------------------
\* The data-flow evaluator (mistral/workflow/data_flow.py).
\* ------------------------------------------------------------------------
\* A context is a set of <<variable, value>> with one value for a variable.
Keys(ctx) == {p[1] : p \in ctx}

\* ctx[var]; null for a variable the context does not have.
Lookup(ctx, var) ==
    IF var \in Keys(ctx) THEN (CHOOSE p \in ctx : p[1] = var)[2]
    ELSE <<"null">>

\* merge_dicts as it would be if the value already there were kept.
merge_dicts_keep_left(left, right) ==
    left \cup {p \in right : p[1] \notin Keys(left)}

\* utils.merge_dicts(left, right): on a key of both the value of right.
merge_dicts(left, right) ==
    {p \in left : p[1] \notin Keys(right)} \cup right

\* The action executions of the task execution t, in the order of
\* get_action_executions sorted by with_items_index.
ActionsOfTask(db, t) ==
    SelectSeq([a \in 1..Len(db.act) |-> a],
              LAMBDA a : db.act[a].task_execution_id = t)

\* The output of an action execution: what std.echo was given, or the error
\* of a failed action; none while it runs.
ActionOutput(db, w, a) ==
    IF db.act[a].state = SUCCESS
    THEN get_task(db.wf[w].workflow_name,
                  db.task[db.act[a].task_execution_id].name).output
    ELSE "error"

\* get_task_execution_result as it would be without the test of accepted.
get_task_execution_result_all(db, t) ==
    LET w == db.task[t].workflow_execution_id
        execs == SelectSeq(ActionsOfTask(db, t),
                    LAMBDA a : is_completed(db.act[a].state))
    IN [i \in 1..Len(execs) |-> ActionOutput(db, w, execs[i])]

\* data_flow.get_task_execution_result(task_ex): the outputs of the action
\* executions that have an output and are accepted.
get_task_execution_result(db, t) ==
    LET w == db.task[t].workflow_execution_id
        execs == SelectSeq(ActionsOfTask(db, t),
                    LAMBDA a : is_completed(db.act[a].state)
                                /\ db.act[a].accepted)
    IN [i \in 1..Len(execs) |-> ActionOutput(db, w, execs[i])]

\* evaluate(expr, ctx), with the result of the task under its own name.
RECURSIVE evaluate(_, _, _)
evaluate(expr, ctx, result) ==
    IF expr = <<>> THEN <<>>
    ELSE (CASE Head(expr).term = "lit" -> <<Head(expr).of>>
            [] Head(expr).term = "ref" -> Lookup(ctx, Head(expr).of)
            [] OTHER -> result)
         \o evaluate(Tail(expr), ctx, result)

\* data_flow.publish_variables(task_ex, task_spec): the publish mapping of
\* a task that succeeded, evaluated in the context the task ran in; nothing
\* for a task that failed.
publish_variables(db, t, state) ==
    LET w == db.task[t].workflow_execution_id
    IN IF state # SUCCESS THEN {}
       ELSE {<<p[1], evaluate(p[2], db.task[t].in_vars,
                              get_task_execution_result(db, t))>> :
                p \in get_task(db.wf[w].workflow_name,
                               db.task[t].name).publish}

\* data_flow.evaluate_task_outbound_context(task_ex): what the task ran in,
\* and over it what the task published.
evaluate_task_outbound_context(db, t) ==
    merge_dicts(db.task[t].in_vars, db.task[t].published)

\* ------------------------------------------------------------------------
\* The workflow controller (mistral/workflow/base.py, direct workflow).
\* ------------------------------------------------------------------------
\* RunTask(task_spec, context): ctx is the context the task is to run in,
\* modelled by the names of the tasks whose results it holds; wait is set
\* for a join that is not satisfied.
RunTask(name, ctx, variables, wait) ==
    [cmd |-> "RunTask", name |-> name, task_ex |-> 0, reset |-> TRUE,
     ctx |-> ctx, vars |-> variables, wait |-> wait]
RunExistingTask(t, reset) ==
    [cmd |-> "RunExistingTask", name |-> "", task_ex |-> t, reset |-> reset,
     ctx |-> {}, vars |-> {}, wait |-> FALSE]
\* PauseWorkflow: the command for the transition target `pause`.
PauseWorkflowCmd ==
    [cmd |-> "PauseWorkflow", name |-> "pause", task_ex |-> 0, reset |-> TRUE,
     ctx |-> {}, vars |-> {}, wait |-> FALSE]

\* The tasks no transition leads to.
StartTasks(wf_name) ==
    {n \in get_tasks(wf_name) :
        \A m \in get_tasks(wf_name) :
            n \notin get_task(wf_name, m).on_success
                        \cup get_task(wf_name, m).on_error}

\* The transitions of a completed task that match its state.
NextTasks(wf_name, task_ex) ==
    IF task_ex.state = SUCCESS THEN get_task(wf_name, task_ex.name).on_success
    ELSE IF task_ex.state = ERROR THEN get_task(wf_name, task_ex.name).on_error
    ELSE {}

\* The tasks with a transition to the task `name`.
InboundTasks(wf_name, name) ==
    {m \in get_tasks(wf_name) :
        name \in get_task(wf_name, m).on_success
                    \cup get_task(wf_name, m).on_error}

\* The completed task executions of w whose transition to `name` matches
\* their state.
CompletedInbound(db, w, name) ==
    {t \in TasksOf(db, w) :
        /\ is_completed(db.task[t].state)
        /\ name \in NextTasks(db.wf[w].workflow_name, db.task[t])}

\* The join condition as it would be if every join counted as satisfied.
_is_unsatisfied_join_never(db, w, name) == FALSE

\* The join condition of `name` is not met: with join: all, some inbound
\* transition has not completed.
_is_unsatisfied_join(db, w, name) ==
    /\ get_task(db.wf[w].workflow_name, name).join = Some("all")
    /\ {db.task[t].name : t \in CompletedInbound(db, w, name)}
            # InboundTasks(db.wf[w].workflow_name, name)

\* The context after a task execution: what it ran in and its own result.
TaskContext(db, t) == db.task[t].in_context \cup {db.task[t].name}

\* The context of the task `name` that the completed task t leads to: for a
\* join, the contexts of all its completed inbound branches.
TargetContext(db, w, t, name) ==
    IF get_task(db.wf[w].workflow_name, name).join = None
    THEN TaskContext(db, t)
    ELSE UNION {TaskContext(db, u) : u \in CompletedInbound(db, w, name)}

\* The outbound contexts of the task executions ts, merged in the order in
\* which the task executions were created.
RECURSIVE MergedOutbound(_, _)
MergedOutbound(db, ts) ==
    IF ts = {} THEN {}
    ELSE LET last == CHOOSE u \in ts : \A v \in ts : v <= u
         IN merge_dicts(MergedOutbound(db, ts \ {last}),
                        evaluate_task_outbound_context(db, last))

\* The variables the task `name` runs with when the completed task t leads
\* to it: the outbound context of t; for a join, those of all its completed
\* inbound branches.
TargetVars(db, w, t, name) ==
    IF get_task(db.wf[w].workflow_name, name).join = None
    THEN evaluate_task_outbound_context(db, t)
    ELSE MergedOutbound(db, CompletedInbound(db, w, name))

\* The RunTask commands for the start tasks, by name ascending.
RunStartTasks(names) ==
    [i \in 1..Len(SortedNames(names)) |->
        RunTask(SortedNames(names)[i], {}, {}, FALSE)]

\* The RunTask commands for the transitions of the completed task t, by name
\* ascending.
RunTasks(db, w, t, names) ==
    [i \in 1..Len(SortedNames(names)) |->
        IF SortedNames(names)[i] = "pause" THEN PauseWorkflowCmd
        ELSE RunTask(SortedNames(names)[i],
                     TargetContext(db, w, t, SortedNames(names)[i]),
                     TargetVars(db, w, t, SortedNames(names)[i]),
                     _is_unsatisfied_join(db, w, SortedNames(names)[i]))]

RECURSIVE NextCommands(_, _, _)
NextCommands(db, w, t) ==
    IF t > Len(db.task) THEN <<>>
    ELSE (IF /\ db.task[t].workflow_execution_id = w
             /\ is_completed(db.task[t].state)
             /\ ~db.task[t].processed
          THEN RunTasks(db, w, t,
                        NextTasks(db.wf[w].workflow_name, db.task[t]))
          ELSE <<>>) \o NextCommands(db, w, t + 1)

\* continue_workflow(task_ex, reset): nothing for a paused or completed
\* workflow; the rerun of task_ex when given; the start tasks of a workflow
\* without task executions; else the transitions of the completed tasks with
\* processed = false.
continue_workflow(db, w, task_ex, reset) ==
    IF is_paused_or_completed(db.wf[w].state) THEN <<>>
    ELSE IF task_ex # None THEN <<RunExistingTask(Val(task_ex), reset)>>
    ELSE IF TasksOf(db, w) = {}
         THEN RunStartTasks(StartTasks(db.wf[w].workflow_name))
    ELSE NextCommands(db, w, 1)

\* all_errors_handled(): every ERROR task has an on-error clause.
all_errors_handled(db, w) ==
    \A t \in find_error_task_executions(db, w) :
        get_task(db.wf[w].workflow_name, db.task[t].name).on_error # {}

\* What the task executions ts published, merged in the order in which the
\* task executions were created: a task is created after the tasks that
\* lead to it.
RECURSIVE MergedPublished(_, _)
MergedPublished(db, ts) ==
    IF ts = {} THEN {}
    ELSE LET last == CHOOSE u \in ts : \A v \in ts : v <= u
         IN merge_dicts(MergedPublished(db, ts \ {last}),
                        db.task[last].published)

\* evaluate_workflow_final_context as it would be if it took the publish
\* mapping of every completed task, failed or not.
evaluate_workflow_final_context_completed(db, w) ==
    [tasks |-> {db.task[t].name :
                    t \in {u \in TasksOf(db, w) : db.task[u].state = SUCCESS}},
     vars |-> MergedPublished(
                [db EXCEPT !.task = [t \in DOMAIN @ |-> [@[t] EXCEPT
                    !.published = publish_variables(db, t, SUCCESS)]]],
                {u \in TasksOf(db, w) : is_completed(db.task[u].state)})]

\* evaluate_workflow_final_context(): what the successful tasks published:
\* the names of those tasks, and the variables.
evaluate_workflow_final_context(db, w) ==
    [tasks |-> {db.task[t].name :
                    t \in {u \in TasksOf(db, w) : db.task[u].state = SUCCESS}},
     vars |-> MergedPublished(db,
                    {u \in TasksOf(db, w) : db.task[u].state = SUCCESS})]

\* data_flow.evaluate_workflow_output(wf_spec, final_context)
evaluate_workflow_output(final_context) ==
    [kind |-> "context", data |-> final_context.tasks,
     vars |-> final_context.vars]

\* ------------------------------------------------------------------------
\* Workflow (mistral/engine/workflows.py).
\* ------------------------------------------------------------------------
\* set_state as it would be with the assignment ahead of the validation.
RECURSIVE set_state_unchecked(_, _, _, _, _)
set_state_unchecked(db, w, state, state_info, recursive) ==
    LET cur_state == db.wf[w].state
        d1 == [db EXCEPT !.wf[w].state = state,
                         !.wf[w].state_info = state_info,
                         !.wf[w].accepted = state \in {SUCCESS, ERROR}]
    IN IF ~is_valid_transition(cur_state, state)
       THEN Outcome(d1, WorkflowException(Some(w), state))
       ELSE IF recursive /\ d1.wf[w].task_execution_id # None
       THEN LET pt == Val(d1.wf[w].task_execution_id)
                r == set_state_unchecked(d1, d1.task[pt].workflow_execution_id,
                                         state, None, recursive)
            IN IF r.exc # None THEN r
               ELSE Outcome([r.db EXCEPT !.task[pt].state = state,
                                         !.task[pt].state_info = None,
                                         !.task[pt].processed = FALSE], None)
       ELSE Outcome(d1, None)

\* set_state as it would be with accepted set for SUCCESS alone.
RECURSIVE set_state_accept_success(_, _, _, _, _)
set_state_accept_success(db, w, state, state_info, recursive) ==
    LET cur_state == db.wf[w].state
    IN IF ~is_valid_transition(cur_state, state)
       THEN Outcome(db, WorkflowException(Some(w), state))
       ELSE
        LET d1 == [db EXCEPT !.wf[w].state = state,
                             !.wf[w].state_info = state_info,
                             !.wf[w].accepted = state = SUCCESS]
        IN IF recursive /\ d1.wf[w].task_execution_id # None
           THEN LET pt == Val(d1.wf[w].task_execution_id)
                    r == set_state_accept_success(d1,
                            d1.task[pt].workflow_execution_id,
                            state, None, recursive)
                IN IF r.exc # None THEN r
                   ELSE Outcome([r.db EXCEPT !.task[pt].state = state,
                                             !.task[pt].state_info = None,
                                             !.task[pt].processed = FALSE],
                                None)
           ELSE Outcome(d1, None)

\* Workflow.set_state(state, state_info, recursive): a valid transition sets
\* state, state_info and accepted, and with recursive the same state on the
\* parent workflow and the parent task; an invalid one raises.
RECURSIVE set_state(_, _, _, _, _)
set_state(db, w, state, state_info, recursive) ==
    LET cur_state == db.wf[w].state
    IN IF ~is_valid_transition(cur_state, state)
       THEN Outcome(db, WorkflowException(Some(w), state))
       ELSE
        LET d1 == [db EXCEPT !.wf[w].state = state,
                             !.wf[w].state_info = state_info,
                             !.wf[w].accepted = state \in {SUCCESS, ERROR}]
        IN IF recursive /\ d1.wf[w].task_execution_id # None
           THEN LET pt == Val(d1.wf[w].task_execution_id)
                    r == set_state(d1, d1.task[pt].workflow_execution_id,
                                   state, None, recursive)
                IN IF r.exc # None THEN r
                   ELSE Outcome([r.db EXCEPT !.task[pt].state = state,
                                             !.task[pt].state_info = None,
                                             !.task[pt].processed = FALSE],
                                None)
           ELSE Outcome(d1, None)

\* _schedule_send_result_to_parent_workflow, for a sub-workflow. The
\* execution has just entered SUCCESS or ERROR: nothing has been delivered
\* for this completion.
_schedule_send_result_to_parent_workflow(db, w) ==
    IF db.wf[w].task_execution_id # None
    THEN [db EXCEPT !.calls = Append(@, w), !.wf[w].delivered = 0]
    ELSE db

\* _succeed_workflow(final_context, msg)
_succeed_workflow(db, w, final_context, msg) ==
    LET d1 == [db EXCEPT !.wf[w].output =
                            evaluate_workflow_output(final_context)]
        r == set_state(d1, w, SUCCESS, msg, FALSE)
    IN IF r.exc # None THEN r
       ELSE Outcome(_schedule_send_result_to_parent_workflow(r.db, w), None)

\* _fail_workflow as it would be without the test of the current state.
_fail_workflow_unguarded(db, w, msg) ==
    LET r == set_state(db, w, ERROR, msg, FALSE)
    IN IF r.exc # None THEN r
       ELSE Outcome(_schedule_send_result_to_parent_workflow(
                        [r.db EXCEPT !.wf[w].output =
                            [kind |-> "result",
                             data |-> {msg[i] : i \in DOMAIN msg},
                             vars |-> {}]],
                        w), None)

\* _fail_workflow(msg)
_fail_workflow(db, w, msg) ==
    IF is_paused_or_completed(db.wf[w].state) THEN Outcome(db, None)
    ELSE LET r == set_state(db, w, ERROR, msg, FALSE)
         IN IF r.exc # None THEN r
            ELSE Outcome(_schedule_send_result_to_parent_workflow(
                            [r.db EXCEPT !.wf[w].output =
                                [kind |-> "result",
                                 data |-> {msg[i] : i \in DOMAIN msg},
                                 vars |-> {}]],
                            w), None)

\* _build_fail_info_message(wf_ctrl, wf_ex)
_build_fail_info_message == Some("Failure caused by error in tasks")

\* _check_and_complete as it would be without the test of the workflow state.
_check_and_complete_any_state(db, w) ==
    IF \E t \in find_incomplete_task_executions(db, w) :
            ~is_waiting(db.task[t].state)
    THEN Outcome(db, None)
    ELSE IF all_errors_handled(db, w)
    THEN _succeed_workflow(db, w, evaluate_workflow_final_context(db, w), None)
    ELSE _fail_workflow(db, w, _build_fail_info_message)

\* _check_and_complete as it would be if it always took the success branch.
_check_and_complete_succeed(db, w) ==
    IF is_paused_or_completed(db.wf[w].state) THEN Outcome(db, None)
    ELSE IF \E t \in find_incomplete_task_executions(db, w) :
            ~is_waiting(db.task[t].state)
    THEN Outcome(db, None)
    ELSE _succeed_workflow(db, w, evaluate_workflow_final_context(db, w), None)

\* _check_and_complete as it would be without the test of the incomplete
\* task executions.
_check_and_complete_while_running(db, w) ==
    IF is_paused_or_completed(db.wf[w].state) THEN Outcome(db, None)
    ELSE IF all_errors_handled(db, w)
    THEN _succeed_workflow(db, w, evaluate_workflow_final_context(db, w), None)
    ELSE _fail_workflow(db, w, _build_fail_info_message)

\* _check_and_complete()
_check_and_complete(db, w) ==
    IF is_paused_or_completed(db.wf[w].state) THEN Outcome(db, None)
    ELSE IF \E t \in find_incomplete_task_executions(db, w) :
            ~is_waiting(db.task[t].state)
    THEN Outcome(db, None)
    ELSE IF all_errors_handled(db, w)
    THEN _succeed_workflow(db, w, evaluate_workflow_final_context(db, w), None)
    ELSE _fail_workflow(db, w, _build_fail_info_message)

\* on_task_complete as it would be without the completion check.
on_task_complete_no_check(db, w) == Outcome(db, None)

\* Workflow.on_task_complete(task_ex)
on_task_complete(db, w) == _check_and_complete(db, w)

\* _create_execution(input_dict, desc, params): a new execution in IDLE.
_create_execution(db, wf_name, task_execution_id) ==
    [db EXCEPT !.wf = Append(@,
        [workflow_name |-> wf_name,
         state |-> IDLE,
         state_info |-> None,
         accepted |-> FALSE,
         output |-> [kind |-> "empty", data |-> {}, vars |-> {}],
         task_execution_id |-> task_execution_id,
         \* not a column: the number of on_action_complete calls made to
         \* the parent since the execution last entered SUCCESS or ERROR
         delivered |-> 0])]

\* The steps of Workflow.start after _create_execution, in order.
StartOrder_dispatch_first == <<"dispatch_workflow_commands", "set_state">>

StartOrder == <<"set_state", "dispatch_workflow_commands">>

\* f(v), with v evaluated once.
Apply(f(_), v) == CHOOSE out \in {f(x) : x \in {v}} : TRUE

RECURSIVE dispatch_workflow_commands(_, _, _)
RECURSIVE run_start_steps(_, _, _)
RECURSIVE complete_task(_, _, _)

\* run_new_task as it would be if a with-items task over the empty list
\* ran its action once.
run_new_task_one_action(db, w, name, ctx, variables) ==
    LET t == Len(db.task) + 1
        task_spec == get_task(db.wf[w].workflow_name, name)
        d1 == [db EXCEPT !.task = Append(@,
                    [name |-> name,
                     workflow_execution_id |-> w,
                     state |-> RUNNING,
                     state_info |-> None,
                     processed |-> FALSE,
                     in_context |-> ctx,
                     in_vars |-> variables,
                     published |-> {}])]
    IN IF task_spec.workflow = None
       THEN [d1 EXCEPT !.act = Append(@,
                    [task_execution_id |-> t,
                     state |-> RUNNING,
                     accepted |-> FALSE])]
       ELSE LET sub == Len(d1.wf) + 1
            IN run_start_steps(
                    _create_execution(d1, Val(task_spec.workflow), Some(t)),
                    sub, 1).db

\* The creation of a task execution for a RunTask command: the task is
\* RUNNING with an action execution in flight, or with a sub-workflow
\* execution started for it; a with-items task over the empty list has no
\* iteration to wait for and is complete at once, in SUCCESS.
run_new_task(db, w, name, ctx, variables) ==
    LET t == Len(db.task) + 1
        task_spec == get_task(db.wf[w].workflow_name, name)
        d1 == [db EXCEPT !.task = Append(@,
                    [name |-> name,
                     workflow_execution_id |-> w,
                     state |-> RUNNING,
                     state_info |-> None,
                     processed |-> FALSE,
                     in_context |-> ctx,
                     in_vars |-> variables,
                     published |-> {}])]
    IN IF task_spec.workflow = None
       THEN IF name \in WithItemsTasks /\ get_count(name) = 0
            THEN complete_task(d1, t, SUCCESS).db
            ELSE [d1 EXCEPT !.act = Append(@,
                    [task_execution_id |-> t,
                     state |-> RUNNING,
                     accepted |-> FALSE])]
       ELSE LET sub == Len(d1.wf) + 1
            IN run_start_steps(
                    _create_execution(d1, Val(task_spec.workflow), Some(t)),
                    sub, 1).db

\* A RunExistingTask command: with reset the task's action executions are no
\* longer accepted; the task is RUNNING again, its completion not consumed
\* by the controller, with a new action execution or sub-workflow execution.
run_existing_task(db, w, t, reset) ==
    LET task_spec == get_task(db.wf[w].workflow_name, db.task[t].name)
        d1 == [db EXCEPT
                !.task[t].state = RUNNING,
                !.task[t].state_info = None,
                !.task[t].processed = FALSE,
                !.act = [a \in DOMAIN @ |->
                            IF reset /\ @[a].task_execution_id = t
                            THEN [@[a] EXCEPT !.accepted = FALSE] ELSE @[a]]]
    IN IF task_spec.workflow = None
       THEN [d1 EXCEPT !.act = Append(@,
                    [task_execution_id |-> t,
                     state |-> RUNNING,
                     accepted |-> FALSE])]
       ELSE LET sub == Len(d1.wf) + 1
            IN run_start_steps(
                    _create_execution(d1, Val(task_spec.workflow), Some(t)),
                    sub, 1).db

\* The WAITING placeholder of a join that is not satisfied.
create_waiting_task(db, w, name) ==
    [db EXCEPT !.task = Append(@,
        [name |-> name,
         workflow_execution_id |-> w,
         state |-> WAITING,
         state_info |-> None,
         processed |-> FALSE,
         in_context |-> {},
         in_vars |-> {},
         published |-> {}])]

\* run_task as it would be if a command for a task that has a task
\* execution were filtered out, join or not.
run_task_filtered(db, w, c) ==
    LET existing == {t \in TasksOf(db, w) : db.task[t].name = c.name}
    IN IF existing = {}
       THEN (IF c.wait THEN create_waiting_task(db, w, c.name)
             ELSE run_new_task(db, w, c.name, c.ctx, c.vars))
       ELSE LET t == CHOOSE u \in existing : TRUE
            IN IF db.task[t].state = WAITING /\ ~c.wait
               THEN run_existing_task(
                        [db EXCEPT !.task[t].in_context = c.ctx,
                                   !.task[t].in_vars = c.vars], w, t, FALSE)
               ELSE db

\* A RunTask command: a task without join gets a new task execution; a join
\* task has one task execution, created WAITING or RUNNING by the first
\* command for it and started by the first command that finds the join
\* satisfied, and a command for a join task that has been started is
\* filtered out.
run_task(db, w, c) ==
    LET existing == {t \in TasksOf(db, w) : db.task[t].name = c.name}
    IN IF \/ get_task(db.wf[w].workflow_name, c.name).join = None
          \/ (existing = {} /\ ~c.wait)
       THEN run_new_task(db, w, c.name, c.ctx, c.vars)
       ELSE IF existing = {}
       THEN create_waiting_task(db, w, c.name)
       ELSE LET t == CHOOSE u \in existing : TRUE
            IN IF db.task[t].state = WAITING /\ ~c.wait
               THEN run_existing_task(
                        [db EXCEPT !.task[t].in_context = c.ctx,
                                   !.task[t].in_vars = c.vars], w, t, FALSE)
               ELSE db

\* The PauseWorkflow command: set_state(PAUSED) on the workflow, which
\* changes nothing where PAUSED cannot follow.
pause_workflow(db, w) ==
    IF is_valid_transition(db.wf[w].state, PAUSED)
    THEN [db EXCEPT !.wf[w].state = PAUSED,
                    !.wf[w].state_info = None,
                    !.wf[w].accepted = FALSE]
    ELSE db

\* dispatcher.dispatch_workflow_commands(wf_ex, cmds)
dispatch_workflow_commands(db, w, cmds) ==
    IF cmds = <<>> THEN db
    ELSE LET c == Head(cmds)
             d1 == IF c.cmd = "RunTask" THEN run_task(db, w, c)
                   ELSE IF c.cmd = "PauseWorkflow"
                   THEN pause_workflow(db, w)
                   ELSE run_existing_task(db, w, c.task_ex, c.reset)
         IN Apply(LAMBDA d : dispatch_workflow_commands(d, w, Tail(cmds)), d1)

\* One step of Workflow.start on the execution it created.
start_step(db, w, step) ==
    IF step = "set_state" THEN set_state(db, w, RUNNING, None, FALSE)
    ELSE Outcome(Apply(LAMBDA cmds : dispatch_workflow_commands(db, w, cmds),
                       continue_workflow(db, w, None, TRUE)), None)

\* Workflow.start from step i on, for the execution w it created.
run_start_steps(db, w, i) ==
    IF i > Len(StartOrder) THEN Outcome(db, None)
    ELSE LET r == start_step(db, w, StartOrder[i])
         IN IF r.exc # None THEN r ELSE run_start_steps(r.db, w, i + 1)

\* _continue_workflow(task_ex, reset, env)
_continue_workflow(db, w, task_ex, reset) ==
    LET d1 == [db EXCEPT !.task = [t \in DOMAIN @ |->
                    IF /\ @[t].workflow_execution_id = w
                       /\ is_completed(@[t].state)
                       /\ ~@[t].processed
                    THEN [@[t] EXCEPT !.processed = TRUE] ELSE @[t]]]
    IN Apply(LAMBDA cmds :
                IF cmds = <<>> THEN _check_and_complete(d1, w)
                ELSE Outcome(Apply(LAMBDA d :
                                        dispatch_workflow_commands(d, w, cmds),
                                   d1), None),
             SelectSeq(continue_workflow(db, w, task_ex, reset),
                       LAMBDA c : c.cmd # "PauseWorkflow"))

\* Workflow.stop(state, msg)
stop(db, w, state, msg) ==
    IF state = SUCCESS
    THEN _succeed_workflow(db, w, evaluate_workflow_final_context(db, w), msg)
    ELSE IF state = ERROR THEN _fail_workflow(db, w, msg)
    ELSE Outcome(db, None)

\* Workflow.resume as it would be without the change of state.
resume_without_set_state(db, w) == _continue_workflow(db, w, None, TRUE)

\* Workflow.resume(env)
resume(db, w) ==
    LET r == set_state(db, w, RUNNING, None, TRUE)
    IN IF r.exc # None THEN r
       ELSE Apply(LAMBDA d : _continue_workflow(d, w, None, TRUE), r.db)

\* Workflow.rerun as it would be if it set the state of its own execution
\* alone.
rerun_not_recursive(db, w, task_ex, reset) ==
    LET r == set_state(db, w, RUNNING, None, FALSE)
    IN IF r.exc # None THEN r
       ELSE _continue_workflow(r.db, w, Some(task_ex), reset)

\* Workflow.rerun(task_ex, reset, env)
rerun(db, w, task_ex, reset) ==
    LET r == set_state(db, w, RUNNING, None, TRUE)
    IN IF r.exc # None THEN r
       ELSE Apply(LAMBDA d : _continue_workflow(d, w, Some(task_ex), reset),
                  r.db)

\* ------------------------------------------------------------------------
\* Task completion (mistral/engine/tasks.py, task_handler.py).
\* ------------------------------------------------------------------------
\* complete_task as it would be if it completed a complete task again.
complete_task_again(db, t, state) ==
     LET w == db.task[t].workflow_execution_id
         d1 == [db EXCEPT !.task[t].state = state,
                          !.task[t].state_info =
                                IF state = ERROR THEN Some("error") ELSE None,
                          !.task[t].published =
                                publish_variables(db, t, state)]
         cmds == continue_workflow(d1, w, None, TRUE)
         d2 == IF d1.wf[w].state = PAUSED THEN d1
               ELSE dispatch_workflow_commands(
                        [d1 EXCEPT !.task[t].processed = TRUE], w, cmds)
     IN on_task_complete(d2, w)

\* Task.complete(state) followed by the workflow's on_task_complete: a task
\* that is already complete is left alone; else it takes the state, and
\* unless the workflow is paused the controller's commands are dispatched
\* and the task is marked processed.
complete_task(db, t, state) ==
    IF is_completed(db.task[t].state) THEN Outcome(db, None)
    ELSE
     LET w == db.task[t].workflow_execution_id
         d1 == [db EXCEPT !.task[t].state = state,
                          !.task[t].state_info =
                                IF state = ERROR THEN Some("error") ELSE None,
                          !.task[t].published =
                                publish_variables(db, t, state)]
         d2 == IF d1.wf[w].state = PAUSED THEN d1
               ELSE Apply(LAMBDA cmds :
                            dispatch_workflow_commands(
                                [d1 EXCEPT !.task[t].processed = TRUE],
                                w, cmds),
                          continue_workflow(d1, w, None, TRUE))
     IN Apply(LAMBDA d : on_task_complete(d, w), d2)

\* Engine.on_action_complete(action_ex_id, result) for an action execution.
on_action_complete(db, a, state) ==
    complete_task([db EXCEPT !.act[a].state = state,
                             !.act[a].accepted = TRUE],
                  db.act[a].task_execution_id, state)

\* wf_utils.Result(data, error)
ResultOf(data, error) == [data |-> data, error |-> error]

\* The message of a failed sub-workflow that has no state_info.
FailedSubworkflow == "Failed subworkflow"

\* result_for_parent as it would be if it took no account of the state.
result_for_parent_any_state(db, w) ==
    IF db.wf[w].state = ERROR
    THEN Some(ResultOf(None, IF db.wf[w].state_info # None
                             THEN db.wf[w].state_info
                             ELSE Some(FailedSubworkflow)))
    ELSE Some(ResultOf(Some(db.wf[w].output), None))

\* The result _send_result_to_parent_workflow passes on: the output as data
\* for SUCCESS, the state_info or else the message above as error for
\* ERROR, and none in another state.
result_for_parent(db, w) ==
    IF db.wf[w].state = SUCCESS
    THEN Some(ResultOf(Some(db.wf[w].output), None))
    ELSE IF db.wf[w].state = ERROR
    THEN Some(ResultOf(None, IF db.wf[w].state_info # None
                             THEN db.wf[w].state_info
                             ELSE Some(FailedSubworkflow)))
    ELSE None

\* Engine.on_action_complete(wf_ex_id, result) for a sub-workflow execution:
\* its parent task completes, in ERROR with the error of the result, else
\* in SUCCESS.
on_subworkflow_complete(db, w, result) ==
    LET pt == Val(db.wf[w].task_execution_id)
        state == IF result.error # None THEN ERROR ELSE SUCCESS
    IN Apply(LAMBDA r :
                IF is_completed(db.task[pt].state) THEN r
                ELSE Outcome([r.db EXCEPT
                                !.task[pt].state_info = result.error], r.exc),
             complete_task(db, pt, state))

\* _send_result_to_parent_workflow(wf_ex_id): the sub-workflow's result is
\* delivered to the parent task when the sub-workflow is SUCCESS or ERROR.
_send_result_to_parent_workflow(db, w) ==
    IF result_for_parent(db, w) = None THEN Outcome(db, None)
    ELSE Apply(LAMBDA result :
                on_subworkflow_complete(
                    [db EXCEPT !.wf[w].delivered = @ + 1], w, Val(result)),
               result_for_parent(db, w))

\* ------------------------------------------------------------------------
\* The engine's operations.
\* ------------------------------------------------------------------------
\* The number of reruns that may be requested.
MaxReruns == 1
\* The number of scheduled calls the scheduler may have pending.
MaxDelayedCalls == 2

CurrentDb == Db(wf_exs, task_exs, action_exs, delayed_calls)

\* What a call of a Workflow method leaves: the rows as the method assigned
\* them (an assignment made before a raise stays made) and what it raised.
Effect(r) ==
    \E left \in {r} :
        /\ Len(left.db.calls) <= MaxDelayedCalls
        /\ wf_exs' = left.db.wf
        /\ task_exs' = left.db.task
        /\ action_exs' = left.db.act
        /\ delayed_calls' = left.db.calls
        /\ raised' = left.exc

WfIds == 1..Len(wf_exs)

\* An execution is visible to other operations once its start is done.
Visible(w) == IF starting = None THEN TRUE ELSE Val(starting).w # w

TopLevel == {w \in WfIds : wf_exs[w].task_execution_id = None}

\* The reruns made so far: a task execution has one action execution or
\* sub-workflow execution (none when it is with-items over the empty list),
\* and one more for each rerun.
Reruns ==
    Len(action_exs) + Cardinality(WfIds \ TopLevel)
        + Cardinality({t \in 1..Len(task_exs) :
                        /\ get_with_items(task_exs[t])
                        /\ get_count(task_exs[t].name) = 0})
        - Len(task_exs)

\* Workflow.start: validate_input, then _create_execution. The model follows
\* one top-level execution and the sub-workflow executions under it.
StartWorkflow(wf_name, input_ok) ==
    /\ starting = None
    /\ TopLevel = {}
    /\ IF input_ok
       THEN /\ Effect(Outcome(_create_execution(CurrentDb, wf_name, None),
                              None))
            /\ starting' = Some([w |-> Len(wf_exs) + 1, i |-> 1])
       ELSE /\ Effect(Outcome(CurrentDb, InputException))
            /\ starting' = starting
    /\ UNCHANGED <<cronvars, othervars>>

\* Workflow.start: the next step on the created execution.
StartStep ==
    /\ starting # None
    /\ LET w == Val(starting).w
           i == Val(starting).i
       IN /\ Effect(start_step(CurrentDb, w, StartOrder[i]))
          /\ starting' = IF i < Len(StartOrder)
                         THEN Some([w |-> w, i |-> i + 1]) ELSE None
    /\ UNCHANGED <<cronvars, othervars>>

\* An executor reports the result of an action in flight.
OnActionComplete(a, state) ==
    /\ a \in 1..Len(action_exs)
    /\ action_exs[a].state = RUNNING
    /\ Visible(task_exs[action_exs[a].task_execution_id].workflow_execution_id)
    /\ Effect(on_action_complete(CurrentDb, a, state))
    /\ UNCHANGED <<starting, cronvars, othervars>>

\* The result of an action is delivered again: on_action_complete with the
\* (action_ex_id, result) of an earlier delivery.
RedeliverActionResult(a) ==
    /\ a \in 1..Len(action_exs)
    /\ is_completed(action_exs[a].state)
    /\ Visible(task_exs[action_exs[a].task_execution_id].workflow_execution_id)
    /\ Effect(on_action_complete(CurrentDb, a, action_exs[a].state))
    /\ UNCHANGED <<starting, cronvars, othervars>>

\* The scheduler runs a scheduled _send_result_to_parent_workflow and
\* deletes the call.
SendResultToParent(i) ==
    /\ i \in 1..Len(delayed_calls)
    /\ LET w == delayed_calls[i]
           rest == [j \in 1..(Len(delayed_calls) - 1) |->
                        IF j < i THEN delayed_calls[j]
                        ELSE delayed_calls[j + 1]]
       IN Effect(_send_result_to_parent_workflow(
                    [CurrentDb EXCEPT !.calls = rest], w))
    /\ UNCHANGED <<starting, cronvars, othervars>>

\* pause_workflow(execution_id)
PauseWorkflow(w) ==
    /\ w \in WfIds /\ Visible(w)
    /\ Effect(set_state(CurrentDb, w, PAUSED, None, FALSE))
    /\ UNCHANGED <<starting, cronvars, othervars>>

\* resume_workflow(execution_id)
ResumeWorkflow(w) ==
    /\ w \in WfIds /\ Visible(w)
    /\ Effect(resume(CurrentDb, w))
    /\ UNCHANGED <<starting, cronvars, othervars>>

\* stop_workflow(execution_id, state, message)
StopWorkflow(w, state) ==
    /\ w \in WfIds /\ Visible(w)
    /\ Effect(stop(CurrentDb, w, state, Some("stopped")))
    /\ UNCHANGED <<starting, cronvars, othervars>>

\* stop_workflow(execution_id, state, message), the message optional.
StopWorkflowWith(w, state, msg) ==
    /\ w \in WfIds /\ Visible(w)
    /\ Effect(stop(CurrentDb, w, state, msg))
    /\ UNCHANGED <<starting, cronvars, othervars>>

\* The messages of the exceptions raised by PUT /tasks/<id>.
NotInError == "The current task execution must be in ERROR for rerun."
NoReset == "Only with-items task has the option to not reset."

\* PUT /tasks/<id> as it would be without the check of reset.
put_any_reset(db, t, reset) ==
    IF db.task[t].state # ERROR
    THEN Outcome(db, WorkflowException(None, NotInError))
    ELSE rerun(db, db.task[t].workflow_execution_id, t, reset)

\* PUT /tasks/<id> {state: RUNNING, reset}: the task must be in ERROR, and
\* reset may be false for a with-items task only; then
\* rerun_workflow(task_ex_id, reset).
put(db, t, reset) ==
    IF db.task[t].state # ERROR
    THEN Outcome(db, WorkflowException(None, NotInError))
    ELSE IF ~get_with_items(db.task[t]) /\ ~reset
    THEN Outcome(db, WorkflowException(None, NoReset))
    ELSE rerun(db, db.task[t].workflow_execution_id, t, reset)

\* A rerun request. The reruns requested are those of tasks that run an
\* action.
RerunWorkflow(t, reset) ==
    /\ t \in 1..Len(task_exs)
    /\ get_task(wf_exs[task_exs[t].workflow_execution_id].workflow_name,
                task_exs[t].name).workflow = None
    /\ Visible(task_exs[t].workflow_execution_id)
    /\ Reruns < MaxReruns
    /\ Effect(put(CurrentDb, t, reset))
    /\ UNCHANGED <<starting, cronvars, othervars>>

\* ------------------------------------------------------------------------
\* Engine workers: each handles a result in a transaction of its own, under
\* the lock of the workflow execution (Workflow.lock, acquire_lock).
\* ------------------------------------------------------------------------
\* Number of engine workers.
NumWorkers == 2
Workers == 1..NumWorkers

IdleWorker == [pc |-> "idle", a |-> 0, state |-> "", base |-> None,
               result |-> None]

\* acquire_lock as it would be with a statement that locks no row.
acquire_lock_no_update(held, id, k) == {held}

\* acquire_lock(model, id): an UPDATE of the row, which waits while another
\* transaction holds the row and then holds it to the end of this one. The
\* lock tables it may leave; none while it waits.
acquire_lock(held, id, k) ==
    IF \E l \in held : l[1] = id /\ l[2] # k
    THEN {}
    ELSE {held \cup {<<id, k>>}}

\* Workflow.lock()
lock(held, w, k) == acquire_lock(held, w, k)

\* The rows a transaction leaves in a table on commit: those it changed,
\* over what is committed, and after them those it created.
CommitRows(cur, base, new) ==
    [i \in 1..Len(cur) |->
        IF i <= Len(base) /\ i <= Len(new) /\ new[i] # base[i]
        THEN new[i] ELSE cur[i]]
    \o SubSeq(new, Len(base) + 1, Len(new))

\* The end of a transaction that read `base` and wrote `new`.
commit(cur, base, new) ==
    Db(CommitRows(cur.wf, base.wf, new.wf),
       CommitRows(cur.task, base.task, new.task),
       CommitRows(cur.act, base.act, new.act),
       cur.calls \o SubSeq(new.calls, Len(base.calls) + 1, Len(new.calls)))

\* The workflow execution of an action execution.
WfOfAction(a) == task_exs[action_exs[a].task_execution_id].workflow_execution_id

\* A worker receives the result of an action in flight.
ReceiveResult(k, a, state) ==
    /\ worker[k].pc = "idle"
    /\ a \in 1..Len(action_exs)
    /\ action_exs[a].state = RUNNING
    /\ Visible(WfOfAction(a))
    /\ \A j \in Workers : worker[j].a # a
    /\ worker' = [worker EXCEPT ![k] =
                    [IdleWorker EXCEPT !.pc = "received", !.a = a,
                                       !.state = state]]
    /\ UNCHANGED <<locks, wfvars, cronvars, schedvars, defvars, parsevars, actionvars>>

\* The worker opens its transaction, takes the lock of the workflow
\* execution and runs on_action_complete on what is committed.
HandleResult(k) ==
    /\ worker[k].pc = "received"
    /\ \E held \in lock(locks, WfOfAction(worker[k].a), k) : locks' = held
    /\ worker' = [worker EXCEPT ![k].pc = "handled",
                                ![k].base = Some(CurrentDb),
                                ![k].result = Some(on_action_complete(
                                    CurrentDb, worker[k].a, worker[k].state))]
    /\ UNCHANGED <<wfvars, cronvars, schedvars, defvars, parsevars, actionvars>>

\* The transaction ends: its rows are committed and its locks released.
CommitResult(k) ==
    /\ worker[k].pc = "handled"
    /\ Effect(Outcome(commit(CurrentDb, Val(worker[k].base),
                             Val(worker[k].result).db),
                      Val(worker[k].result).exc))
    /\ worker' = [worker EXCEPT ![k] = IdleWorker]
    /\ locks' = {l \in locks : l[2] # k}
    /\ UNCHANGED <<starting, cronvars, schedvars, defvars, parsevars, actionvars>>

\* No worker is handling anything.
LockQuiet ==
    /\ worker = [k \in Workers |-> IdleWorker]
    /\ locks = {}

\* ------------------------------------------------------------------------
\* Workflow definitions and the cron triggers that name them
\* (db/v2/sqlalchemy/api.py).
\* ------------------------------------------------------------------------
DefinitionNames == {"wf", "parent"}

NotFoundException == Some("NotFoundException")
DBException == Some("DBException")
DBDuplicateEntryException == Some("DBDuplicateEntryException")
\* The error of the store for a row that a foreign key still references.
DBReferenceError == Some("DBReferenceError")

\* _get_workflow_definition(name): the row, or None.
_get_workflow_definition(defs, name) == defs[name]

\* _get_associated_cron_triggers(wf_name): the names of the cron triggers
\* with that workflow_name.
_get_associated_cron_triggers(table, wf_name) ==
    {n \in TriggerNames :
        table[n] # None /\ Val(table[n]).workflow_name = wf_name}

\* The cron triggers whose workflow_id is the id of a definition row: the
\* foreign key of cron_triggers_v2.workflow_id (models.py).
ReferencedBy(table, id) ==
    {n \in TriggerNames :
        table[n] # None /\ Val(table[n]).workflow_id = Some(id)}

\* The values create_cron_trigger is called with: workflow_id is the id of
\* the definition, or is left out.
CronTriggerValues ==
    [name : TriggerNames, workflow_name : DefinitionNames,
     workflow_id : {None} \cup {Some(n) : n \in DefinitionNames}]

\* create_cron_trigger(values): the INSERT; a duplicate name, or any other
\* error of the store (a workflow_id that is the id of no definition),
\* raises DBDuplicateEntryException. [table, exc].
create_cron_trigger(table, defs, values) ==
    IF table[values.name] # None
    THEN [table |-> table, exc |-> DBDuplicateEntryException]
    ELSE IF /\ values.workflow_id # None
            /\ \A n \in DefinitionNames :
                    defs[n] = None \/ Val(defs[n]).id # Val(values.workflow_id)
    THEN [table |-> table, exc |-> DBDuplicateEntryException]
    ELSE [table |-> [table EXCEPT ![values.name] =
                        Some([name |-> values.name, id |-> values.name,
                              pattern |-> PatternOf[values.name],
                              next_execution_time |-> 0,
                              remaining_executions |-> None,
                              workflow_name |-> values.workflow_name,
                              workflow_id |-> values.workflow_id])],
          exc |-> None]

\* A session creates a cron trigger.
CreateCronTrigger(values) ==
    /\ cron_triggers' = create_cron_trigger(cron_triggers,
                            workflow_definitions, values).table
    /\ db_raised' = create_cron_trigger(cron_triggers,
                            workflow_definitions, values).exc
    /\ UNCHANGED <<now, created_with, engine, started, workflow_definitions,
                   deleting, wfvars, schedvars, lockvars, parsevars, actionvars>>

\* delete_workflow_definition(name), up to session.delete: the definition
\* is looked up, then the cron triggers with its name.
DeleteWorkflowDefinitionCheck(name) ==
    /\ deleting = None
    /\ IF _get_workflow_definition(workflow_definitions, name) = None
       THEN db_raised' = NotFoundException /\ deleting' = None
       ELSE IF _get_associated_cron_triggers(cron_triggers, name) # {}
       THEN db_raised' = DBException /\ deleting' = None
       ELSE db_raised' = None /\ deleting' = Some(name)
    /\ UNCHANGED <<workflow_definitions, cronvars, wfvars, schedvars,
                   lockvars, parsevars, actionvars>>

\* delete_workflow_definition(name): session.delete(wf_def). The store
\* refuses the DELETE of a row that a workflow_id refers to.
DeleteWorkflowDefinitionDelete ==
    /\ deleting # None
    /\ LET name == Val(deleting)
       IN IF workflow_definitions[name] = None
          THEN /\ db_raised' = None
               /\ UNCHANGED workflow_definitions
          ELSE IF ReferencedBy(cron_triggers,
                               Val(workflow_definitions[name]).id) # {}
          THEN /\ db_raised' = DBReferenceError
               /\ UNCHANGED workflow_definitions
          ELSE /\ db_raised' = None
               /\ workflow_definitions' =
                        [workflow_definitions EXCEPT ![name] = None]
    /\ deleting' = None
    /\ UNCHANGED <<cronvars, wfvars, schedvars, lockvars, parsevars, actionvars>>

\* Every definition exists and no call is in progress.
DefQuiet ==
    /\ workflow_definitions =
            [n \in DefinitionNames |-> Some([id |-> n, name |-> n])]
    /\ deleting = None
    /\ db_raised = None

\* ------------------------------------------------------------------------
\* The specification parser (mistral/workbook/parser.py).
\* ------------------------------------------------------------------------
\* The longest version string the factories are called with.
MaxVersionLen == 3

\* A string is the sequence of its characters.
V2_0 == <<"2", ".", "0">>
ALL_VERSIONS == {V2_0}

Digits == <<"0", "1", "2", "3", "4", "5", "6", "7", "8", "9">>
IsDigit(c) == \E i \in 1..Len(Digits) : Digits[i] = c
DigitValue(c) == (CHOOSE i \in 1..Len(Digits) : Digits[i] = c) - 1

\* The values of spec_dict['version']: a str, an int, a float (in tenths),
\* a bool, None, a list; or the key is absent.
StrValue(s) == [type |-> "str", s |-> s, n |-> 0]
IntValue(n) == [type |-> "int", s |-> <<>>, n |-> n]
FloatValue(tenths) == [type |-> "float", s |-> <<>>, n |-> tenths]
BoolValue(b) == [type |-> "bool", s |-> <<>>, n |-> IF b THEN 1 ELSE 0]
NoneValue == [type |-> "NoneType", s |-> <<>>, n |-> 0]
ListValue == [type |-> "list", s |-> <<>>, n |-> 1]
Absent == [type |-> "absent", s |-> <<>>, n |-> 0]

\* `not ver`
IsFalsy(ver) ==
    CASE ver.type = "str" -> ver.s = <<>>
      [] ver.type = "NoneType" -> TRUE
      [] OTHER -> ver.n = 0

\* A float: its integral part and the digits of its fraction, without
\* trailing zeros.
RECURSIVE StripZeros(_)
StripZeros(ds) ==
    IF ds # <<>> /\ ds[Len(ds)] = "0" THEN StripZeros(SubSeq(ds, 1, Len(ds) - 1))
    ELSE ds

RECURSIVE NatOfDigits(_)
NatOfDigits(ds) ==
    IF ds = <<>> THEN 0
    ELSE 10 * NatOfDigits(SubSeq(ds, 1, Len(ds) - 1)) + DigitValue(ds[Len(ds)])

\* float(str): digits, with at most one point among them; else ValueError.
FloatOfStr(s) ==
    LET points == {i \in 1..Len(s) : s[i] = "."}
        point == IF points = {} THEN Len(s) + 1 ELSE CHOOSE i \in points : TRUE
        int == SubSeq(s, 1, point - 1)
        frac == SubSeq(s, point + 1, Len(s))
    IN IF /\ Cardinality(points) <= 1
          /\ \A i \in 1..Len(s) : s[i] = "." \/ IsDigit(s[i])
          /\ Len(int) + Len(frac) >= 1
       THEN [ok |-> TRUE, exc |-> "", int |-> NatOfDigits(int),
             frac |-> StripZeros(frac)]
       ELSE [ok |-> FALSE, exc |-> "ValueError", int |-> 0, frac |-> <<>>]

\* float(ver)
Float(ver) ==
    CASE ver.type = "str" -> FloatOfStr(ver.s)
      [] ver.type \in {"int", "bool"} ->
            [ok |-> TRUE, exc |-> "", int |-> ver.n, frac |-> <<>>]
      [] ver.type = "float" ->
            [ok |-> TRUE, exc |-> "", int |-> ver.n \div 10,
             frac |-> StripZeros(<<Digits[(ver.n % 10) + 1]>>)]
      [] OTHER -> [ok |-> FALSE, exc |-> "TypeError", int |-> 0, frac |-> <<>>]

\* str(n) of a natural number.
RECURSIVE StrOfNat(_)
StrOfNat(n) ==
    IF n < 10 THEN <<Digits[n + 1]>>
    ELSE StrOfNat(n \div 10) \o <<Digits[(n % 10) + 1]>>

\* str(f) of a float
StrOfFloat(f) ==
    StrOfNat(f.int) \o <<".">> \o (IF f.frac = <<>> THEN <<"0">> ELSE f.frac)

\* ver == V2_0: a str with these characters.
Equals(ver, str) == ver.type = "str" /\ ver.s = str

\* What a call leaves: a returned value, or an exception.
Returned(value) == [kind |-> "returned", value |-> value]
Raised(exc) == [kind |-> "raised", value |-> StrValue(<<exc>>)]
DSLParsingException == "DSLParsingException"

\* _get_spec_version(spec_dict): '2.0' when the key is absent.
_get_spec_version(version) ==
    LET ver == IF version = Absent THEN StrValue(V2_0) ELSE version
    IN IF IsFalsy(ver) THEN Raised(DSLParsingException)
       ELSE IF ~Float(ver).ok THEN Raised(Float(ver).exc)
       ELSE IF StrOfFloat(Float(ver)) \notin ALL_VERSIONS
       THEN Raised(DSLParsingException)
       ELSE Returned(ver)

\* The factories and the class each instantiates.
SpecClassOf ==
    [get_workbook_spec |-> "WorkbookSpec", get_action_spec |-> "ActionSpec",
     get_workflow_spec |-> "WorkflowSpec", get_task_spec |-> "TaskSpec"]
Factories == DOMAIN SpecClassOf

\* get_workflow_spec, get_task_spec, get_workbook_spec, get_action_spec:
\* base.instantiate_spec when the version equals V2_0, else None.
get_spec(factory, version) ==
    LET ver == _get_spec_version(version)
    IN IF ver.kind = "raised" THEN ver
       ELSE IF Equals(ver.value, V2_0)
       THEN Returned(StrValue(<<SpecClassOf[factory]>>))
       ELSE Returned(NoneValue)

\* The versions the factories are called with.
VersionChars == {"0", "1", "2", ".", "a"}
VersionStrings ==
    UNION {[1..k -> VersionChars] : k \in 0..MaxVersionLen}
Versions ==
    {Absent, NoneValue, ListValue, BoolValue(TRUE), BoolValue(FALSE)}
        \cup {StrValue(s) : s \in VersionStrings}
        \cup {IntValue(n) : n \in 0..2}
        \cup {FloatValue(n) : n \in {0, 10, 20, 25}}

\* No factory has been called for the dictionary.
NotCalled == [kind |-> "none", value |-> NoneValue]

\* A call of a factory with the dictionary.
GetSpec(factory) ==
    /\ parsing.outcome = NotCalled
    /\ parsing.version # NoneValue \/ parsing.factory = ""
    /\ parsing' = [parsing EXCEPT
                        !.factory = factory,
                        !.outcome = get_spec(factory, parsing.version)]
    /\ UNCHANGED <<cronvars, wfvars, schedvars, lockvars, defvars, actionvars>>

\* No dictionary is being parsed.
ParseQuiet ==
    parsing = [version |-> NoneValue, factory |-> "quiet", outcome |-> NotCalled]

\* ------------------------------------------------------------------------
\* Delayed calls (db/v2/sqlalchemy/api.py) and the scheduler that sweeps them.
\* ------------------------------------------------------------------------
\* Number of schedulers that sweep the table.
NumSweepers == 2

Sweepers == 1..NumSweepers
DelayedCallIds == {"dc1", "dc2"}

\* get_delayed_calls_to_start(time): the rows with execution_time < time and
\* processing = false; any order that is sorted by execution_time.
CallsToStart(table, time) ==
    {c \in DelayedCallIds :
        /\ table[c] # None
        /\ Val(table[c]).execution_time < time
        /\ ~Val(table[c]).processing}

IsSortedByExecutionTime(table, s) ==
    \A i \in 1..Len(s), j \in 1..Len(s) :
        i < j => Val(table[s[i]]).execution_time
                    <= Val(table[s[j]]).execution_time

get_delayed_calls_to_start(table, time) ==
    {s \in UNION {[1..k -> CallsToStart(table, time)]
                    : k \in 0..Cardinality(DelayedCallIds)} :
        /\ Len(s) = Cardinality(CallsToStart(table, time))
        /\ \A c \in CallsToStart(table, time) : \E i \in 1..Len(s) : s[i] = c
        /\ IsSortedByExecutionTime(table, s)}

\* update_delayed_call as it would be with the query_filter left out of the
\* match.
update_delayed_call_unfiltered(table, id, values, query_filter) ==
    IF table[id] # None
    THEN <<[table EXCEPT ![id] = Some([Val(table[id]) EXCEPT
                !.processing = values])], 1>>
    ELSE <<table, 0>>

\* update_delayed_call(id, {processing: values}, query_filter = {processing:
\* query_filter}): update_on_match on the id and the filter column;
\* NoRowsMatched gives (None, 0). <<table', number of rows updated>>.
update_delayed_call(table, id, values, query_filter) ==
    IF table[id] # None /\ Val(table[id]).processing = query_filter
    THEN <<[table EXCEPT ![id] = Some([Val(table[id]) EXCEPT
                !.processing = values])], 1>>
    ELSE <<table, 0>>

\* delete_delayed_call(id)
delete_delayed_call(table, id) == [table EXCEPT ![id] = None]

IdleSweeper == [pc |-> "idle", todo |-> <<>>, call |-> None]

\* The sweeper after one row: the loop goes on or the sweep ends.
NextCall(sw) ==
    [sw EXCEPT !.pc = IF sw.todo = <<>> THEN "idle" ELSE "loop",
               !.call = None]

\* The sweep reads the due rows.
GetDelayedCallsToStart(s) ==
    /\ sweeper[s].pc = "idle"
    /\ \E todo \in get_delayed_calls_to_start(delayed_calls_v2, now) :
        /\ todo # <<>>
        /\ sweeper' = [sweeper EXCEPT ![s] =
                            [IdleSweeper EXCEPT !.pc = "loop", !.todo = todo]]
    /\ UNCHANGED <<delayed_calls_v2, claimed, invoked, cronvars, wfvars, extravars>>

\* The claim of the next row: UPDATE ... SET processing = true WHERE id = ?
\* AND processing = false. With one row updated the sweeper owns the call.
ClaimDelayedCall(s) ==
    /\ sweeper[s].pc = "loop"
    /\ LET id == Head(sweeper[s].todo)
           r == update_delayed_call(delayed_calls_v2, id, TRUE, FALSE)
           sw == [sweeper[s] EXCEPT !.todo = Tail(@)]
       IN /\ delayed_calls_v2' = r[1]
          /\ IF r[2] = 1
             THEN /\ claimed' = [claimed EXCEPT ![id] = @ + 1]
                  /\ sweeper' = [sweeper EXCEPT ![s] =
                        [sw EXCEPT !.pc = "invoke", !.call = Some(id)]]
             ELSE /\ claimed' = claimed
                  /\ sweeper' = [sweeper EXCEPT ![s] = NextCall(sw)]
    /\ UNCHANGED <<invoked, cronvars, wfvars, extravars>>

\* The sweeper invokes the target of the call it owns.
InvokeDelayedCall(s) ==
    /\ sweeper[s].pc = "invoke"
    /\ invoked' = [invoked EXCEPT ![Val(sweeper[s].call)] = @ + 1]
    /\ sweeper' = [sweeper EXCEPT ![s].pc = "delete"]
    /\ UNCHANGED <<delayed_calls_v2, claimed, cronvars, wfvars, extravars>>

\* The row is deleted after the invocation, whether it failed or not.
DeleteDelayedCall(s) ==
    /\ sweeper[s].pc = "delete"
    /\ delayed_calls_v2' =
            delete_delayed_call(delayed_calls_v2, Val(sweeper[s].call))
    /\ sweeper' = [sweeper EXCEPT ![s] = NextCall(@)]
    /\ UNCHANGED <<claimed, invoked, cronvars, wfvars, extravars>>

\* The process of the sweeper dies with a call claimed: it restarts idle and
\* the row is left as it is.
CrashSweeper(s) ==
    /\ sweeper[s].pc \in {"invoke", "delete"}
    /\ sweeper' = [sweeper EXCEPT ![s] = IdleSweeper]
    /\ UNCHANGED <<delayed_calls_v2, claimed, invoked, cronvars, wfvars, extravars>>

\* Time passes for the scheduler.
SchedTick ==
    /\ now < MaxTime
    /\ now' = now + 1
    /\ UNCHANGED <<cron_triggers, created_with, engine, started, wfvars,
                   schedvars, extravars>>

\* No delayed call exists.
SchedQuiet ==
    /\ delayed_calls_v2 = [c \in DelayedCallIds |-> None]
    /\ sweeper = [s \in Sweepers |-> IdleSweeper]
    /\ claimed = [c \in DelayedCallIds |-> 0]
    /\ invoked = [c \in DelayedCallIds |-> 0]

\* Nothing exists outside the cron processor and the workflow engine.
\* ------------------------------------------------------------------------
\* Action definitions (db/v2/sqlalchemy/api.py, models.py).
\* ------------------------------------------------------------------------
NumCallers == 2
MaxCalls == 1
Callers == 1..NumCallers
ActionNames == {"act1", "act2"}
ActionTexts == {"text1", "text2"}

\* The values of a definition: its name and its text.
ActionValues == [name : ActionNames, definition : ActionTexts]

IdleCaller == [pc |-> "idle", op |-> "", name |-> "", values |-> None,
               exc |-> None, calls |-> 0]

\* The row of a definition; `by` is not a column: it records the call that
\* inserted the row.
ActionRow(values, by) ==
    [name |-> values.name, definition |-> values.definition, by |-> by]

\* The positions of the rows named name.
RowsNamed(table, name) == {i \in 1..Len(table) : table[i].name = name}

\* _get_action_definition(name): query.filter_by(name=name).first().
_get_action_definition(table, name) ==
    IF RowsNamed(table, name) = {} THEN None
    ELSE Some(table[CHOOSE i \in RowsNamed(table, name) :
                        \A j \in RowsNamed(table, name) : i <= j])

\* a_def.save() as it would be without UniqueConstraint('name',
\* 'project_id').
save_unconstrained(table, row) == [table |-> Append(table, row), exc |-> None]

\* a_def.save(session): the INSERT under UniqueConstraint('name',
\* 'project_id') of action_definitions_v2; the store raises DBDuplicateEntry
\* for a name that has a row.
save(table, row) ==
    IF RowsNamed(table, row.name) # {}
    THEN [table |-> table, exc |-> Some("DBDuplicateEntry")]
    ELSE [table |-> Append(table, row), exc |-> None]

\* create_action_definition(values): DBDuplicateEntry becomes
\* DBDuplicateEntryException.
create_action_definition(table, values) ==
    Apply(LAMBDA r : IF r.exc = Some("DBDuplicateEntry")
                     THEN [table |-> r.table, exc |-> DBDuplicateEntryException]
                     ELSE r,
          save(table, values))

\* update_action_definition(name, values): the row found is updated.
update_action_definition(table, name, values) ==
    IF _get_action_definition(table, name) = None
    THEN [table |-> table, exc |-> NotFoundException]
    ELSE [table |-> [i \in 1..Len(table) |->
                        IF i = CHOOSE k \in RowsNamed(table, name) :
                                    \A j \in RowsNamed(table, name) : k <= j
                        THEN [table[i] EXCEPT !.name = values.name,
                                    !.definition = values.definition]
                        ELSE table[i]],
          exc |-> None]

\* The caller's position after its call has returned or raised.
Called(cl, op, values, exc) ==
    [pc |-> "idle", op |-> op, name |-> values.name, values |-> Some(values),
     exc |-> exc, calls |-> cl.calls + 1]

\* A call of create_action_definition(values): one INSERT.
CreateActionDefinition(c, values) ==
    /\ caller[c].pc = "idle"
    /\ caller[c].calls < MaxCalls
    /\ \E r \in {create_action_definition(action_definitions,
                        ActionRow(values, "create"))} :
        /\ action_definitions' = r.table
        /\ caller' = [caller EXCEPT ![c] = Called(@, "create", values, r.exc)]
    /\ UNCHANGED <<cronvars, wfvars, schedvars, lockvars, defvars, parsevars>>

\* create_or_update_action_definition(name, values): the test
\* `if not _get_action_definition(name)`.
BeginCreateOrUpdate(c, values) ==
    /\ caller[c].pc = "idle"
    /\ caller[c].calls < MaxCalls
    /\ caller' = [caller EXCEPT ![c] = [@ EXCEPT
            !.pc = IF _get_action_definition(action_definitions,
                                             values.name) = None
                   THEN "create" ELSE "update",
            !.op = "create_or_update",
            !.name = values.name,
            !.values = Some(values),
            !.exc = None]]
    /\ UNCHANGED <<action_definitions, cronvars, wfvars, schedvars, lockvars,
                   defvars, parsevars>>

\* create_or_update_action_definition: return create_action_definition(
\* values).
FinishCreate(c) ==
    /\ caller[c].pc = "create"
    /\ \E r \in {create_action_definition(action_definitions,
                        ActionRow(Val(caller[c].values), "create_or_update"))} :
        /\ action_definitions' = r.table
        /\ caller' = [caller EXCEPT ![c] =
                Called(@, "create_or_update", Val(caller[c].values), r.exc)]
    /\ UNCHANGED <<cronvars, wfvars, schedvars, lockvars, defvars, parsevars>>

\* create_or_update_action_definition: return update_action_definition(
\* name, values).
FinishUpdate(c) ==
    /\ caller[c].pc = "update"
    /\ \E r \in {update_action_definition(action_definitions,
                        caller[c].name, Val(caller[c].values))} :
        /\ action_definitions' = r.table
        /\ caller' = [caller EXCEPT ![c] =
                Called(@, "create_or_update", Val(caller[c].values), r.exc)]
    /\ UNCHANGED <<cronvars, wfvars, schedvars, lockvars, defvars, parsevars>>

\* No action definition is stored and nobody is calling.
ActionQuiet ==
    /\ action_definitions = <<>>
    /\ caller = [c \in Callers |-> IdleCaller]

ExtraQuiet == LockQuiet /\ DefQuiet /\ ParseQuiet /\ ActionQuiet
OtherQuiet == SchedQuiet /\ ExtraQuiet

\* The cron trigger rows the table may hold at the start.
InitialRows(n) ==
    [name : {n}, id : {n}, pattern : {PatternOf[n]},
     next_execution_time : {0},
     remaining_executions : {None} \cup {Some(k) : k \in 1..MaxRemaining},
     workflow_name : {"wf"}, workflow_id : {Some("wf")}]

\* No workflow execution exists.
WfInit ==
    /\ wf_exs = <<>>
    /\ task_exs = <<>>
    /\ action_exs = <<>>
    /\ delayed_calls = <<>>
    /\ starting = None
    /\ raised = None

\* No cron trigger exists.
CronQuiet ==
    /\ now = 1
    /\ cron_triggers = [n \in TriggerNames |-> None]
    /\ created_with = [n \in TriggerNames |-> None]
    /\ engine = [e \in Engines |-> IdleEngine]
    /\ started = [k \in TriggerNames \X Times |-> 0]

CronInit ==
    /\ WfInit
    /\ OtherQuiet
    /\ now = 1
    /\ \E t \in [TriggerNames -> UNION {InitialRows(n) : n \in TriggerNames}] :
        /\ \A n \in TriggerNames : t[n].name = n /\ t[n].id = n
        /\ cron_triggers = [n \in TriggerNames |-> Some(t[n])]
        /\ created_with = [n \in TriggerNames |-> t[n].remaining_executions]
    /\ engine = [e \in Engines |-> IdleEngine]
    /\ started = [k \in TriggerNames \X Times |-> 0]

CronNext ==
    \/ Tick
    \/ \E e \in Engines : GetNextCronTriggers(e)
    \/ \E e \in Engines : BeginTrigger(e)
    \/ \E e \in Engines : DeleteTrigger(e)
    \/ \E e \in Engines : UpdateTrigger(e)
    \/ \E e \in Engines : StartWorkflowCall(e)
    \/ \E e \in Engines : SkipTrigger(e)

CronSpec == CronInit /\ [][CronNext]_vars

\* The sweeps of the engines, with calls of the first engine that raise.
SweepNext ==
    \/ Tick
    \/ \E e \in Engines :
        \/ GetNextCronTriggers(e)
        \/ BeginTrigger(e)
        \/ DeleteTrigger(e)
        \/ UpdateTrigger(e)
        \/ StartWorkflowCall(e)
        \/ SkipTrigger(e)
    \/ \E logged \in BOOLEAN : AdvanceRaises(1, logged)
    \/ \E logged \in BOOLEAN : StartWorkflowRaises(1, logged)

\* The rows a sweep can find: the column remaining_executions is a plain
\* nullable integer, so that a stored count of 0 is among them.
SweptRows(n) ==
    [name : {n}, id : {n}, pattern : {PatternOf[n]},
     next_execution_time : {0},
     remaining_executions : {None, Some(0), Some(1)},
     workflow_name : {"wf"}, workflow_id : {Some("wf")}]

SweepInit ==
    /\ WfInit
    /\ OtherQuiet
    /\ now = 1
    /\ \E t \in [TriggerNames -> UNION {SweptRows(n) : n \in TriggerNames}] :
        /\ \A n \in TriggerNames : t[n].name = n /\ t[n].id = n
        /\ cron_triggers = [n \in TriggerNames |-> Some(t[n])]
        /\ created_with = [n \in TriggerNames |-> t[n].remaining_executions]
    /\ engine = [e \in Engines |-> IdleEngine]
    /\ started = [k \in TriggerNames \X Times |-> 0]

SweepSpec == SweepInit /\ [][SweepNext]_vars


\* The workflow engine.
Init == WfInit /\ CronQuiet /\ OtherQuiet

Next ==
    \/ \E wf_name \in TopLevelWorkflows, input_ok \in BOOLEAN :
            StartWorkflow(wf_name, input_ok)
    \/ StartStep
    \/ \E a \in 1..Len(action_exs), state \in {SUCCESS, ERROR} :
            OnActionComplete(a, state)
    \/ \E i \in 1..Len(delayed_calls) : SendResultToParent(i)
    \/ \E w \in WfIds : PauseWorkflow(w)
    \/ \E w \in WfIds : ResumeWorkflow(w)
    \/ \E w \in WfIds, state \in {SUCCESS, ERROR} : StopWorkflow(w, state)
    \/ \E t \in 1..Len(task_exs), reset \in BOOLEAN : RerunWorkflow(t, reset)

Spec == Init /\ [][Next]_vars


\* The engine with results of actions delivered more than once, between
\* starts, deliveries, stops and reruns.
RedeliverNext ==
    \/ \E wf_name \in TopLevelWorkflows, input_ok \in BOOLEAN :
            StartWorkflow(wf_name, input_ok)
    \/ StartStep
    \/ \E a \in 1..Len(action_exs), state \in {SUCCESS, ERROR} :
            OnActionComplete(a, state)
    \/ \E i \in 1..Len(delayed_calls) : SendResultToParent(i)
    \/ \E w \in WfIds, state \in {SUCCESS, ERROR} : StopWorkflow(w, state)
    \/ \E t \in 1..Len(task_exs), reset \in BOOLEAN : RerunWorkflow(t, reset)
    \/ \E a \in 1..Len(action_exs) : RedeliverActionResult(a)

RedeliverSpec == Init /\ [][RedeliverNext]_vars

\* The engine with no pause, stop, resume or rerun request, under fair
\* scheduling: a started Workflow.start runs on, every action in flight
\* reports a result, and the scheduler runs every scheduled call.
LiveNext ==
    \/ \E wf_name \in {"wf", "parent", "sub", "fan"}, input_ok \in BOOLEAN :
            StartWorkflow(wf_name, input_ok)
    \/ StartStep
    \/ \E a \in 1..Len(action_exs), state \in {SUCCESS, ERROR} :
            OnActionComplete(a, state)
    \/ \E i \in 1..Len(delayed_calls) : SendResultToParent(i)

LiveSpec ==
    /\ Init
    /\ [][LiveNext]_vars
    /\ WF_vars(StartStep)
    /\ WF_vars(\E a \in 1..Len(action_exs), state \in {SUCCESS, ERROR} :
                    OnActionComplete(a, state))
    /\ WF_vars(\E i \in 1..Len(delayed_calls) : SendResultToParent(i))

\* The delayed calls created before the sweeps start.
SchedInit ==
    /\ WfInit
    /\ CronQuiet
    /\ ExtraQuiet
    /\ \E t \in [DelayedCallIds -> [execution_time : 0..1, processing : {FALSE}]] :
            delayed_calls_v2 = [c \in DelayedCallIds |-> Some(t[c])]
    /\ sweeper = [s \in Sweepers |-> IdleSweeper]
    /\ claimed = [c \in DelayedCallIds |-> 0]
    /\ invoked = [c \in DelayedCallIds |-> 0]

SchedNext ==
    \/ SchedTick
    \/ \E s \in Sweepers : GetDelayedCallsToStart(s)
    \/ \E s \in Sweepers : ClaimDelayedCall(s)
    \/ \E s \in Sweepers : InvokeDelayedCall(s)
    \/ \E s \in Sweepers : DeleteDelayedCall(s)
    \/ \E s \in Sweepers : CrashSweeper(s)

SchedSpec == SchedInit /\ [][SchedNext]_vars

\* The schedulers under fair scheduling: a scheduler that does not crash goes
\* on with its sweep, and sweeps again when rows are due.
FairSchedSpec ==
    /\ SchedInit
    /\ [][SchedNext]_vars
    /\ \A s \in Sweepers :
        WF_vars(GetDelayedCallsToStart(s) \/ ClaimDelayedCall(s)
                    \/ InvokeDelayedCall(s) \/ DeleteDelayedCall(s))
    /\ WF_vars(SchedTick)

\* ------------------------------------------------------------------------
\* Properties of the cron trigger processor.
\* ------------------------------------------------------------------------
RECURSIVE StartedUpTo(_, _)
StartedUpTo(n, t) ==
    IF t < 0 THEN 0 ELSE started[<<n, t>>] + StartedUpTo(n, t - 1)

\* The start_workflow calls made for trigger n.
TotalStarted(n) == StartedUpTo(n, MaxTime)

\* The engines whose advance of trigger n succeeded and whose start_workflow
\* call is still to come.
PendingStart(n) ==
    {e \in Engines : /\ engine[e].pc = "advanced"
                     /\ engine[e].modified
                     /\ Val(engine[e].ct).name = n}

\* An engine's advance succeeds only in a step that modifies the row of the
\* trigger it holds, found with the next_execution_time the engine read.
AdvanceModifiedRow ==
    \A e \in Engines :
        (~engine[e].modified /\ engine'[e].modified) =>
            LET ct == Val(engine[e].ct)
            IN /\ cron_triggers[ct.name] # None
               /\ cron_triggers'[ct.name] # cron_triggers[ct.name]
               /\ (engine[e].pc = "update_exec" =>
                    Val(cron_triggers[ct.name]).next_execution_time
                        = ct.next_execution_time)

\* A start_workflow call is made by an engine whose advance succeeded.
StartOnlyAfterAdvance ==
    \A k \in TriggerNames \X Times :
        started'[k] # started[k] =>
            \E e \in Engines :
                /\ engine[e].pc = "advanced" /\ engine[e].modified
                /\ Val(engine[e].ct).name = k[1]
                /\ Val(engine[e].ct).next_execution_time = k[2]
                /\ started'[k] = started[k] + 1

\* C1: for every trigger and every value v of its next_execution_time at
\* most one start_workflow call is made, however the sweeps of the engines
\* interleave, and a call is made only by an engine whose own advance
\* modified the row.
C1_AtMostOnceFiring ==
    /\ [](\A k \in TriggerNames \X Times : started[k] <= 1)
    /\ [][AdvanceModifiedRow /\ StartOnlyAfterAdvance]_vars

\* C1 witness: one engine started the workflow for an unlimited trigger and
\* another engine, holding the same next_execution_time, matched no row.
C1_Witness ==
    \E e \in Engines :
        /\ engine[e].pc = "advanced" /\ ~engine[e].modified
        /\ engine[e].row_id # None
        /\ created_with[Val(engine[e].ct).name] = None
        /\ started[<<Val(engine[e].ct).name,
                     Val(engine[e].ct).next_execution_time>>] = 1

\* The row of a limited trigger changes only by losing one execution; it is
\* deleted, not updated, by the advance that brings the count to 0.
RemainingLoweredByOne ==
    \A n \in TriggerNames :
        (created_with[n] # None /\ cron_triggers'[n] # cron_triggers[n]) =>
            /\ cron_triggers[n] # None
            /\ LET old == Val(Val(cron_triggers[n]).remaining_executions)
               IN IF old = 1
                  THEN cron_triggers'[n] = None
                  ELSE /\ cron_triggers'[n] # None
                       /\ Val(cron_triggers'[n]).remaining_executions
                            = Some(old - 1)

\* An engine that is through with the advance of a trigger created with one
\* execution leaves no row behind.
LastAdvanceDeletes ==
    \A e \in Engines :
        (engine[e].pc # "advanced" /\ engine'[e].pc = "advanced"
            /\ created_with[Val(engine'[e].ct).name] = Some(1)) =>
                cron_triggers'[Val(engine'[e].ct).name] = None

\* C2: a trigger created with remaining_executions = N causes at most N
\* start_workflow calls; each successful advance lowers the count by one and
\* the one that reaches 0 deletes the row; with N = 1 the row is deleted and
\* exactly one call is made once no successful engine is still to call.
C2_AtMostNFirings ==
    /\ [](\A n \in TriggerNames :
            created_with[n] # None =>
                LET N == Val(created_with[n])
                    left == IF cron_triggers[n] = None THEN 0
                            ELSE Val(Val(cron_triggers[n]).remaining_executions)
                IN /\ TotalStarted(n) <= N
                   /\ cron_triggers[n] # None => left \in 1..N
                   /\ TotalStarted(n) + Cardinality(PendingStart(n)) = N - left)
    /\ [][RemainingLoweredByOne /\ LastAdvanceDeletes]_vars

\* C2 witness: a trigger created with one execution was fired once and
\* deleted, and a second engine that polled it found no row.
C2_Witness ==
    \E n \in TriggerNames, e \in Engines :
        /\ created_with[n] = Some(1)
        /\ cron_triggers[n] = None
        /\ TotalStarted(n) = 1
        /\ engine[e].pc = "advanced" /\ ~engine[e].modified
        /\ Val(engine[e].ct).name = n

\* ------------------------------------------------------------------------
\* Properties of the workflow execution state machine.
\* ------------------------------------------------------------------------
StateFields(wf_ex) == <<wf_ex.state, wf_ex.state_info, wf_ex.accepted>>

\* What set_state does to execution w in the current store, for target s.
SetStateValidated(w, s, recursive) ==
    LET info == Some("info")
        r == set_state(CurrentDb, w, s, info, recursive)
    IN IF is_valid_transition(wf_exs[w].state, s)
       THEN /\ r.db.wf[w].state = s
            /\ r.db.wf[w].state_info = info
            /\ r.exc # WorkflowException(Some(w), s)
       ELSE /\ r.exc = WorkflowException(Some(w), s)
            /\ r.db = CurrentDb

\* An operation that raised the WorkflowException of set_state for an
\* execution has left state, state_info and accepted of that execution alone.
RaisedLeavesState ==
    (raised' # None /\ Val(raised').type = "WorkflowException"
        /\ Val(raised').execution_id # None) =>
        LET w == Val(Val(raised').execution_id)
        IN /\ w \in WfIds
           /\ ~is_valid_transition(wf_exs[w].state, Val(raised').state)
           /\ StateFields(wf_exs'[w]) = StateFields(wf_exs[w])

\* C3: set_state(s) changes the state of a workflow execution only when the
\* transition table allows (current state, s); for every other pair it
\* raises WorkflowException and leaves state, state_info and accepted as
\* they were.
C3_SetStateValidated ==
    /\ [](\A w \in WfIds, s \in States, recursive \in BOOLEAN :
            SetStateValidated(w, s, recursive))
    /\ [][RaisedLeavesState]_vars

\* C3 witness: a pause request for a PAUSED execution was rejected.
C3_Witness ==
    /\ raised # None
    /\ Val(raised).type = "WorkflowException"
    /\ Val(raised).execution_id # None
    /\ Val(raised).state = PAUSED
    /\ wf_exs[Val(Val(raised).execution_id)].state = PAUSED

\* C4 as claimed: resume never takes an execution from SUCCESS or ERROR to
\* RUNNING, and only a rerun takes a completed execution out of its terminal
\* state. Stated for the operations that return without raising.
C4_OnlyRerunRestarts ==
    [][\A w \in WfIds :
        (/\ raised' = None
         /\ is_completed(wf_exs[w].state)
         /\ ~is_completed(wf_exs'[w].state)) =>
            /\ ~ResumeWorkflow(w)
            /\ \E t \in 1..Len(task_exs), reset \in BOOLEAN :
                    RerunWorkflow(t, reset)]_vars

\* C5: a workflow execution has accepted = true exactly when its state is
\* SUCCESS or ERROR, in every reachable state.
C5_AcceptedIffCompleted ==
    \A w \in WfIds : wf_exs[w].accepted <=> is_completed(wf_exs[w].state)

\* C5 witness: an execution that had completed (its output is set) is
\* RUNNING again and no longer accepted.
C5_Witness ==
    \E w \in WfIds :
        /\ wf_exs[w].state = RUNNING
        /\ wf_exs[w].output.kind # "empty"
        /\ ~wf_exs[w].accepted

TasksIn(tasks, w) ==
    {t \in 1..Len(tasks) : tasks[t].workflow_execution_id = w}

\* A top-level execution is created in IDLE without tasks, and leaves IDLE
\* for RUNNING, still without tasks.
StartsInOrder ==
    \A w \in 1..Len(wf_exs') :
        wf_exs'[w].task_execution_id = None =>
            /\ w \notin WfIds =>
                (wf_exs'[w].state = IDLE /\ TasksIn(task_exs', w) = {})
            /\ (w \in WfIds /\ wf_exs[w].state = IDLE) =>
                (wf_exs'[w].state = RUNNING /\ TasksIn(task_exs', w) = {})

\* A start that fails the validation of the input creates nothing.
InvalidInputCreatesNothing ==
    raised' = InputException =>
        (wf_exs' = wf_exs /\ task_exs' = task_exs /\ action_exs' = action_exs)

\* C6: Workflow.start validates the input before it creates the execution,
\* creates it in IDLE, moves it to RUNNING and only then dispatches the
\* first commands: no task execution exists for an execution in IDLE.
C6_StartOrder ==
    /\ [](\A t \in 1..Len(task_exs) :
            wf_exs[task_exs[t].workflow_execution_id].state # IDLE)
    /\ [][StartsInOrder /\ InvalidInputCreatesNothing]_vars

\* C6 witness: a started execution is RUNNING and its first commands are
\* not dispatched yet.
C6_Witness ==
    /\ starting # None
    /\ wf_exs[Val(starting).w].state = RUNNING
    /\ TasksIn(task_exs, Val(starting).w) = {}

\* The store after the step.
NextDb == Db(wf_exs', task_exs', action_exs', delayed_calls')

\* C7: when the completion of a task is handled for a RUNNING workflow and
\* leaves no task of the workflow incomplete, the workflow is SUCCESS if all
\* errors are handled and ERROR otherwise.
C7_CompletesWhenNothingLeft ==
    [][\A t \in 1..Len(task_exs) :
        LET w == task_exs[t].workflow_execution_id
        IN (/\ ~is_completed(task_exs[t].state)
            /\ is_completed(task_exs'[t].state)
            /\ wf_exs[w].state = RUNNING
            /\ find_incomplete_task_executions(NextDb, w) = {}) =>
                wf_exs'[w].state =
                    IF all_errors_handled(NextDb, w) THEN SUCCESS ELSE ERROR
      ]_vars

\* C7 witness: a workflow failed by the completion check, with no task left
\* incomplete.
C7_Witness ==
    \E w \in WfIds :
        /\ wf_exs[w].state = ERROR
        /\ wf_exs[w].state_info = _build_fail_info_message
        /\ find_incomplete_task_executions(CurrentDb, w) = {}
        /\ ~all_errors_handled(CurrentDb, w)

\* C8: with no pause, stop, resume or rerun, and every dispatched action
\* reporting a result, from any state in which workflow executions exist a
\* state follows in which every one of them is SUCCESS or ERROR.
C8_EventuallyCompleted ==
    (wf_exs # <<>>) ~>
        (\A w \in WfIds : is_completed(wf_exs[w].state))

\* C8 witness: a workflow with a sub-workflow ran to SUCCESS.
C8_Witness ==
    \E w \in WfIds :
        /\ wf_exs[w].workflow_name = "parent"
        /\ wf_exs[w].state = SUCCESS

\* C9: when the result of an action arrives for a task of a workflow that is
\* already SUCCESS or ERROR, the result is accepted and the task completes,
\* but the workflow execution is left as it is and no task or action
\* execution is created for it.
C9_NoCommandsAfterStop ==
    [][\A t \in 1..Len(task_exs) :
        LET w == task_exs[t].workflow_execution_id
        IN (/\ ~is_completed(task_exs[t].state)
            /\ is_completed(task_exs'[t].state)
            /\ is_completed(wf_exs[w].state)) =>
                /\ wf_exs'[w] = wf_exs[w]
                /\ TasksIn(task_exs', w) = TasksIn(task_exs, w)
                /\ Len(action_exs') = Len(action_exs)
                /\ Len(wf_exs') = Len(wf_exs)
                /\ \A a \in 1..Len(action_exs) :
                    (action_exs[a].task_execution_id = t
                        /\ action_exs[a].state = RUNNING) =>
                        (action_exs'[a].accepted
                            /\ is_completed(action_exs'[a].state))
      ]_vars

\* C9 witness: t1 of "wf" succeeded and was processed, and no task follows
\* it: its workflow was complete when the result arrived.
C9_Witness ==
    \E w \in WfIds, t \in 1..Len(task_exs) :
        /\ wf_exs[w].workflow_name = "wf"
        /\ is_completed(wf_exs[w].state)
        /\ wf_exs[w].state_info = Some("stopped")
        /\ task_exs[t].workflow_execution_id = w
        /\ task_exs[t].state = SUCCESS /\ task_exs[t].processed
        /\ TasksIn(task_exs, w) = {t}

\* C10 as claimed: stop_workflow with ERROR leaves a PAUSED execution in
\* ERROR, and with SUCCESS in SUCCESS.
C10_PausedCanBeStopped ==
    [][\A w \in WfIds, state \in {SUCCESS, ERROR} :
        (wf_exs[w].state = PAUSED /\ StopWorkflow(w, state)) =>
            wf_exs'[w].state = state]_vars

\* ------------------------------------------------------------------------
\* Properties of the delayed call scheduler.

\* The engine with workers that handle results concurrently.
WorkerNext ==
    \/ \E wf_name \in {"wf", "fan"} : StartWorkflow(wf_name, TRUE)
    \/ StartStep
    \/ \E k \in Workers, a \in 1..Len(action_exs), state \in {SUCCESS, ERROR} :
            ReceiveResult(k, a, state)
    \/ \E k \in Workers : HandleResult(k)
    \/ \E k \in Workers : CommitResult(k)

WorkerSpec == Init /\ [][WorkerNext]_vars

\* Calls of the spec factories, each with a dictionary of its own.
ParseInit ==
    /\ WfInit
    /\ CronQuiet
    /\ SchedQuiet
    /\ LockQuiet
    /\ DefQuiet
    /\ ActionQuiet
    /\ parsing \in [version : Versions, factory : {""}, outcome : {NotCalled}]

ParseNext == \E factory \in Factories : GetSpec(factory)

ParseSpec == ParseInit /\ [][ParseNext]_vars

\* Sessions that create cron triggers and delete workflow definitions.
DefNext ==
    \/ \E values \in CronTriggerValues : CreateCronTrigger(values)
    \/ \E name \in DefinitionNames : DeleteWorkflowDefinitionCheck(name)
    \/ DeleteWorkflowDefinitionDelete

DefSpec == Init /\ [][DefNext]_vars

\* The engine running the workflow with a join, with pause, resume and
\* rerun requests, under fair scheduling; a paused workflow is resumed.
JoinNext ==
    \/ StartWorkflow("jn", TRUE)
    \/ StartStep
    \/ \E a \in 1..Len(action_exs), state \in {SUCCESS, ERROR} :
            OnActionComplete(a, state)
    \/ \E w \in WfIds : PauseWorkflow(w)
    \/ \E w \in WfIds : ResumeWorkflow(w)
    \/ \E t \in 1..Len(task_exs), reset \in BOOLEAN : RerunWorkflow(t, reset)

JoinSpec ==
    /\ Init
    /\ [][JoinNext]_vars
    /\ WF_vars(StartStep)
    /\ WF_vars(\E a \in 1..Len(action_exs), state \in {SUCCESS, ERROR} :
                    OnActionComplete(a, state))
    /\ WF_vars(\E w \in WfIds : wf_exs[w].state = PAUSED /\ ResumeWorkflow(w))

\* The engine on a workflow whose join has a branch with an error handler,
\* with pause, resume and rerun requests.
HandledJoinNext ==
    \/ StartWorkflow("jh", TRUE)
    \/ StartStep
    \/ \E a \in 1..Len(action_exs), state \in {SUCCESS, ERROR} :
            OnActionComplete(a, state)
    \/ \E w \in WfIds : PauseWorkflow(w)
    \/ \E w \in WfIds : ResumeWorkflow(w)
    \/ \E t \in 1..Len(task_exs), reset \in BOOLEAN : RerunWorkflow(t, reset)

HandledJoinSpec == Init /\ [][HandledJoinNext]_vars

\* The engine on a workflow with a join and on one whose tasks pause it,
\* with pause and resume requests.
ResumeNext ==
    \/ \E wf_name \in {"jn", "pz"} : StartWorkflow(wf_name, TRUE)
    \/ StartStep
    \/ \E a \in 1..Len(action_exs), state \in {SUCCESS, ERROR} :
            OnActionComplete(a, state)
    \/ \E w \in WfIds : PauseWorkflow(w)
    \/ \E w \in WfIds : ResumeWorkflow(w)

ResumeSpec == Init /\ [][ResumeNext]_vars

\* The engine on a workflow that runs a sub-workflow, with stop requests with
\* and without a message, resume and rerun requests.
SubNext ==
    \/ StartWorkflow("parent", TRUE)
    \/ StartStep
    \/ \E a \in 1..Len(action_exs), state \in {SUCCESS, ERROR} :
            OnActionComplete(a, state)
    \/ \E i \in 1..Len(delayed_calls) : SendResultToParent(i)
    \/ \E w \in WfIds, state \in {SUCCESS, ERROR},
          msg \in {None, Some("stopped")} : StopWorkflowWith(w, state, msg)
    \/ \E w \in WfIds : ResumeWorkflow(w)
    \/ \E t \in 1..Len(task_exs) : RerunWorkflow(t, TRUE)

SubSpec == Init /\ [][SubNext]_vars

\* The engine on a workflow of two parallel branches, with pause, resume and
\* rerun requests.
PausedRerunNext ==
    \/ StartWorkflow("par", TRUE)
    \/ StartStep
    \/ \E a \in 1..Len(action_exs), state \in {SUCCESS, ERROR} :
            OnActionComplete(a, state)
    \/ \E w \in WfIds : PauseWorkflow(w)
    \/ \E w \in WfIds : ResumeWorkflow(w)
    \/ \E t \in 1..Len(task_exs), reset \in BOOLEAN : RerunWorkflow(t, reset)

PausedRerunSpec == Init /\ [][PausedRerunNext]_vars

\* The engine with pause requests and then rerun requests, where every
\* action that reports after a rerun succeeds, under fair scheduling.
RerunLiveNext ==
    \/ \E wf_name \in {"wf", "parent", "sub"}, input_ok \in BOOLEAN :
            StartWorkflow(wf_name, input_ok)
    \/ StartStep
    \/ \E a \in 1..Len(action_exs), state \in {SUCCESS, ERROR} :
            /\ state = ERROR => Reruns = 0
            /\ OnActionComplete(a, state)
    \/ \E i \in 1..Len(delayed_calls) : SendResultToParent(i)
    \/ \E w \in WfIds : Reruns = 0 /\ PauseWorkflow(w)
    \/ \E t \in 1..Len(task_exs), reset \in BOOLEAN : RerunWorkflow(t, reset)

RerunLiveSpec ==
    /\ Init
    /\ [][RerunLiveNext]_vars
    /\ WF_vars(StartStep)
    /\ WF_vars(\E a \in 1..Len(action_exs) : OnActionComplete(a, SUCCESS))
    /\ WF_vars(\E i \in 1..Len(delayed_calls) : SendResultToParent(i))

\* The engine running the workflows that publish variables, with rerun
\* requests.
DataNext ==
    \/ \E wf_name \in {"seq", "fan", "wi"} : StartWorkflow(wf_name, TRUE)
    \/ StartStep
    \/ \E a \in 1..Len(action_exs), state \in {SUCCESS, ERROR} :
            OnActionComplete(a, state)
    \/ \E t \in 1..Len(task_exs), reset \in BOOLEAN : RerunWorkflow(t, reset)

DataSpec == Init /\ [][DataNext]_vars

\* The engine running the workflows that publish variables, with requests
\* to stop a workflow in SUCCESS.
DataStopNext ==
    \/ \E wf_name \in {"seq", "fan"} : StartWorkflow(wf_name, TRUE)
    \/ StartStep
    \/ \E a \in 1..Len(action_exs), state \in {SUCCESS, ERROR} :
            OnActionComplete(a, state)
    \/ \E w \in WfIds : StopWorkflow(w, SUCCESS)

DataStopSpec == Init /\ [][DataStopNext]_vars

\* ------------------------------------------------------------------------
\* The sweepers that own the call c.
OwnersOf(c) == {s \in Sweepers : sweeper[s].call = Some(c)}

\* C11: a delayed call is claimed by at most one sweeper: the guarded update
\* of processing reports one modified row for it at most once, a row with
\* processing = true is in no result of get_delayed_calls_to_start, no call
\* is invoked twice, and a deleted row was claimed exactly once.
C11_ClaimedAtMostOnce ==
    \A c \in DelayedCallIds :
        /\ claimed[c] <= 1
        /\ invoked[c] <= claimed[c]
        /\ Cardinality(OwnersOf(c)) <= 1
        /\ delayed_calls_v2[c] = None => claimed[c] = 1
        /\ (delayed_calls_v2[c] # None /\ Val(delayed_calls_v2[c]).processing)
            => /\ claimed[c] = 1
               /\ \A time \in 0..(MaxTime + 1) :
                    \A todo \in get_delayed_calls_to_start(delayed_calls_v2,
                                                            time) :
                        \A i \in 1..Len(todo) : todo[i] # c

\* C11 witness: a call is claimed and invoked while another sweeper, which
\* read the row before the claim, is about to try its own claim.
C11_Witness ==
    \E c \in DelayedCallIds, s \in Sweepers :
        /\ claimed[c] = 1
        /\ invoked[c] = 1
        /\ sweeper[s].pc = "loop"
        /\ Head(sweeper[s].todo) = c

\* A claimed row whose sweeper is gone.
Stale(c) ==
    /\ delayed_calls_v2[c] # None
    /\ Val(delayed_calls_v2[c]).processing
    /\ OwnersOf(c) = {}

\* C12 as claimed: a row left with processing = true by a crashed handler
\* eventually is eligible for dispatch again (processing = false) or gone.
C12_StaleCallReclaimed ==
    \A c \in DelayedCallIds :
        Stale(c) ~> (delayed_calls_v2[c] = None
                        \/ ~Val(delayed_calls_v2[c]).processing)

\* ------------------------------------------------------------------------
\* Properties of repeated and concurrent deliveries.
\* ------------------------------------------------------------------------
\* What a second delivery of the result of a does to the store.
Redelivery(a) == on_action_complete(CurrentDb, a, action_exs[a].state)

PauseThenResume(w) ==
    resume(set_state(CurrentDb, w, PAUSED, None, FALSE).db, w)

Rerunnable ==
    {t \in 1..Len(task_exs) :
        /\ Visible(task_exs[t].workflow_execution_id)
        /\ get_task(wf_exs[task_exs[t].workflow_execution_id].workflow_name,
                    task_exs[t].name).workflow = None}

\* A request that was rejected: it raised and left the states of the task
\* and of its workflow alone.
Rejected(r, t) ==
    /\ r.exc # None
    /\ Val(r.exc).type = "WorkflowException"
    /\ r.db.task[t].state = task_exs[t].state
    /\ r.db.wf[task_exs[t].workflow_execution_id].state =
            wf_exs[task_exs[t].workflow_execution_id].state

\* C15 as claimed: a rerun is rejected, with no change of the state of the
\* task or the workflow, unless the task is in ERROR and its workflow in
\* ERROR or PAUSED.
C15_RerunOnlyInErrorOrPaused ==
    \A t \in Rerunnable, reset \in BOOLEAN :
        ~(/\ task_exs[t].state = ERROR
          /\ wf_exs[task_exs[t].workflow_execution_id].state
                \in {ERROR, PAUSED})
            => Rejected(put(CurrentDb, t, reset), t)

\* C16: a rerun request with reset = false for a task without with-items is
\* rejected with WorkflowException before anything is sent to the engine, so
\* that no row changes; for a with-items task in ERROR it goes to the engine.
C16_NoResetOnlyWithItems ==
    \A t \in Rerunnable :
        IF ~get_with_items(task_exs[t])
        THEN /\ put(CurrentDb, t, FALSE).db = CurrentDb
             /\ put(CurrentDb, t, FALSE).exc # None
             /\ Val(put(CurrentDb, t, FALSE).exc).type = "WorkflowException"
        ELSE task_exs[t].state = ERROR =>
                put(CurrentDb, t, FALSE) =
                    rerun(CurrentDb, task_exs[t].workflow_execution_id, t,
                          FALSE)

\* C16 witness: a request with reset = false for an ERROR task without
\* with-items has been rejected.
C16_Witness ==
    /\ raised = WorkflowException(None, NoReset)
    /\ \E t \in Rerunnable :
        task_exs[t].state = ERROR /\ ~get_with_items(task_exs[t])

\* ------------------------------------------------------------------------
\* Properties of a rerun that was accepted.
\* ------------------------------------------------------------------------
\* The execution w and every ancestor of it are RUNNING, and the task of
\* each ancestor that runs the execution below it is RUNNING with no
\* state_info and processed = false.
RECURSIVE AncestorsRunning(_, _)
AncestorsRunning(db, w) ==
    /\ db.wf[w].state = RUNNING
    /\ IF db.wf[w].task_execution_id = None THEN TRUE
       ELSE LET pt == Val(db.wf[w].task_execution_id)
            IN /\ db.task[pt].state = RUNNING
               /\ db.task[pt].state_info = None
               /\ db.task[pt].processed = FALSE
               /\ AncestorsRunning(db, db.task[pt].workflow_execution_id)

\* What an accepted rerun of an ERROR task leaves.
RerunRestartsAncestors ==
    \A t \in Rerunnable, reset \in BOOLEAN :
        LET r == put(CurrentDb, t, reset)
        IN r.exc = None =>
            /\ r.db.task[t].state = RUNNING
            /\ AncestorsRunning(r.db, task_exs[t].workflow_execution_id)

\* The tasks that a successful task of w names in on-success have run.
DownstreamRan(w) ==
    \A t \in TasksOf(CurrentDb, w) :
        task_exs[t].state = SUCCESS =>
            \A n \in get_task(wf_exs[w].workflow_name,
                              task_exs[t].name).on_success :
                \E d \in TasksOf(CurrentDb, w) : task_exs[d].name = n

\* C17: an accepted rerun of an ERROR task leaves the workflow execution of
\* the task and every ancestor RUNNING, and the parent task of each RUNNING
\* with state_info cleared and processed = false; when the actions that
\* report after it succeed, the downstream tasks run and every execution
\* completes, in SUCCESS when no other task execution of it is left in ERROR
\* without a handler.
C17_RerunRestartsAndCompletes ==
    /\ []RerunRestartsAncestors
    /\ (Reruns > 0) ~>
            (\A w \in WfIds :
                /\ is_completed(wf_exs[w].state)
                /\ DownstreamRan(w)
                /\ all_errors_handled(CurrentDb, w) => wf_exs[w].state = SUCCESS)

\* C17 witness: a rerun of the failed task of a sub-workflow was accepted,
\* its action succeeded and the parent workflow reached SUCCESS.
C17_Witness ==
    /\ Reruns > 0
    /\ \E w \in WfIds \ TopLevel :
        /\ wf_exs[w].state = SUCCESS
        /\ wf_exs[task_exs[Val(wf_exs[w].task_execution_id)]
                    .workflow_execution_id].state = SUCCESS

\* C17 as claimed: after an accepted rerun whose actions succeed, the
\* workflow reaches SUCCESS.
C17_RerunReachesSuccess ==
    (Reruns > 0) ~> (\A w \in TopLevel : wf_exs[w].state = SUCCESS)

\* ------------------------------------------------------------------------
\* Properties of concurrent workers.
\* ------------------------------------------------------------------------
\* The workers in a transaction.
Handling == {k \in Workers : worker[k].pc = "handled"}

\* The transaction of worker k completes the workflow execution w.
Completes(k, w) ==
    /\ ~is_completed(Val(worker[k].base).wf[w].state)
    /\ is_completed(Val(worker[k].result).db.wf[w].state)

\* C18: handlers of results for one workflow execution are serialised by
\* its lock. A handler in its transaction has read the rows as they are
\* committed, at most one handler at a time is in a transaction on the
\* execution, none completes an execution that is completed, and when no
\* handler is at work no execution is RUNNING with all its tasks complete.
C18_CompletionsSerialised ==
    /\ \A k \in Handling :
        /\ Val(worker[k].base) = CurrentDb
        /\ \A j \in Handling :
                WfOfAction(worker[j].a) = WfOfAction(worker[k].a) => j = k
        /\ Completes(k, WfOfAction(worker[k].a)) =>
                ~is_completed(wf_exs[WfOfAction(worker[k].a)].state)
    /\ (starting = None /\ \A k \in Workers : worker[k].pc = "idle") =>
            \A w \in WfIds :
                wf_exs[w].state = RUNNING =>
                    find_incomplete_task_executions(CurrentDb, w) # {}

\* C18 witness: the results of the last two incomplete tasks of a workflow
\* execution are with two workers at once; one is in its transaction and
\* the other waits for the lock.
C18_Witness ==
    \E k \in Handling, j \in Workers :
        /\ worker[j].pc = "received"
        /\ WfOfAction(worker[j].a) = WfOfAction(worker[k].a)
        /\ find_incomplete_task_executions(CurrentDb, WfOfAction(worker[k].a))
                = {action_exs[worker[k].a].task_execution_id,
                   action_exs[worker[j].a].task_execution_id}
        /\ action_exs[worker[k].a].task_execution_id
                # action_exs[worker[j].a].task_execution_id
        /\ lock(locks, WfOfAction(worker[j].a), j) = {}

\* ------------------------------------------------------------------------
\* Properties of workflow definitions.
\* ------------------------------------------------------------------------
\* The definition a cron trigger names exists.
NoDanglingCronTrigger ==
    \A n \in TriggerNames :
        cron_triggers[n] # None =>
            workflow_definitions[Val(cron_triggers[n]).workflow_name] # None

\* A definition row goes only when no cron trigger has its name.
DeletedOnlyUnreferenced ==
    \A name \in DefinitionNames :
        (workflow_definitions[name] # None /\ workflow_definitions'[name] = None)
            => _get_associated_cron_triggers(cron_triggers, name) = {}

\* C19 as claimed: a workflow definition is deleted only when no cron
\* trigger has its workflow name, and after any interleaving of cron trigger
\* creations and workflow definition deletions no cron trigger names a
\* deleted definition.
C19_NoTriggerOfDeletedDefinition ==
    [][DeletedOnlyUnreferenced]_vars /\ []NoDanglingCronTrigger

\* ------------------------------------------------------------------------
\* Properties of join.
\* ------------------------------------------------------------------------
\* The tasks of the execution w that are declared with join: all.
JoinTasks(w) ==
    {n \in get_tasks(wf_exs[w].workflow_name) :
        get_task(wf_exs[w].workflow_name, n).join = Some("all")}

\* The task executions of the task n of w, and the action executions of a
\* task execution.
ExecutionsOf(w, n) == {t \in TasksOf(CurrentDb, w) : task_exs[t].name = n}
ActionsOf(t) == {a \in 1..Len(action_exs) : action_exs[a].task_execution_id = t}

\* Every task with a transition to n has completed with that transition.
AllInboundCompleted(w, n) ==
    \A m \in InboundTasks(wf_exs[w].workflow_name, n) :
        \E u \in CompletedInbound(CurrentDb, w, n) : task_exs[u].name = m

\* The join task n of w has been started.
JoinStarted(w, n) == \E t \in ExecutionsOf(w, n) : task_exs[t].state # WAITING

\* A join task has at most one task execution; while that is WAITING nothing
\* runs for it; once it is not, it has been started once (and once more for
\* each rerun), every task with a transition to it has completed, and its
\* context holds the results of all of them.
JoinStartedOnceAfterInbound ==
    \A w \in WfIds : \A n \in JoinTasks(w) :
        /\ Cardinality(ExecutionsOf(w, n)) <= 1
        /\ \A t \in ExecutionsOf(w, n) :
            IF task_exs[t].state = WAITING
            THEN ActionsOf(t) = {}
            ELSE /\ Cardinality(ActionsOf(t)) \in 1..(1 + Reruns)
                 /\ Cardinality({a \in ActionsOf(t) :
                        action_exs[a].state = RUNNING}) <= 1
                 /\ AllInboundCompleted(w, n)
                 /\ \A u \in CompletedInbound(CurrentDb, w, n) :
                        TaskContext(CurrentDb, u) \subseteq task_exs[t].in_context

\* C20: a task with join: all is started once, and only after every task
\* with a transition to it has completed; until then it is at most a WAITING
\* placeholder; when it runs its context holds the results of all inbound
\* branches; and once all inbound transitions have completed it is started.
C20_JoinAllStartsOnce ==
    /\ []JoinStartedOnceAfterInbound
    /\ (\E w \in WfIds : \E n \in JoinTasks(w) : AllInboundCompleted(w, n))
            ~> (\A w \in WfIds : \A n \in JoinTasks(w) : JoinStarted(w, n))

\* C20 witness: the join task ran after both branches and the workflow
\* succeeded with the results of j1, j2 and j3 in the context of j4.
C20_Witness ==
    \E w \in WfIds : \E t \in ExecutionsOf(w, "j4") :
        /\ wf_exs[w].state = SUCCESS
        /\ task_exs[t].state = SUCCESS
        /\ task_exs[t].in_context = {"j1", "j2", "j3"}

\* ------------------------------------------------------------------------
\* Properties of the data flow.
\* ------------------------------------------------------------------------
\* The task execution u was not run again after the task execution t was
\* created: every action execution of u is older than those of t.
NotRerunSince(u, t) ==
    \A a \in 1..Len(action_exs), b \in 1..Len(action_exs) :
        (/\ action_exs[a].task_execution_id = u
         /\ action_exs[b].task_execution_id = t) => a < b

\* The task executions that completed on the path to the task execution t.
Upstream(t) ==
    {u \in TasksOf(CurrentDb, task_exs[t].workflow_execution_id) :
        /\ task_exs[u].name \in task_exs[t].in_context
        /\ NotRerunSince(u, t)}

\* The task executions on the path to t that published the variable.
Writers(t, var) == {u \in Upstream(t) : var \in Keys(task_exs[u].published)}

\* The one of them that completed last: the one furthest down the path.
LastWriter(t, var) ==
    CHOOSE u \in Writers(t, var) :
        \A v \in Writers(t, var) :
            Cardinality(task_exs[v].in_context)
                <= Cardinality(task_exs[u].in_context)

\* A task execution runs with, for each variable published on its path, the
\* value of the task that published it last, and with no other variable.
LastWriterWins ==
    \A t \in 1..Len(task_exs) :
        task_exs[t].state # WAITING =>
            /\ \A var \in Keys(task_exs[t].in_vars) : Writers(t, var) # {}
            /\ \A var \in {"greeting", "to", "result", "var1", "var2",
                            "var3", "var4", "var5"} :
                    Writers(t, var) # {} =>
                        Lookup(task_exs[t].in_vars, var) =
                            Lookup(task_exs[LastWriter(t, var)].published, var)

\* What a task execution that succeeded has published is its publish
\* mapping evaluated in the context the task ran in, whatever was published
\* after it; a task execution that did not succeed has published nothing.
OwnRecordKept ==
    \A t \in 1..Len(task_exs) :
        task_exs[t].published =
            publish_variables(CurrentDb, t, task_exs[t].state)

\* C21: a task runs with the value that the most recently completed task on
\* its path published for a variable (of q1 and q2, which publish the same
\* variable one after the other, q3 and q4 see the value of q2), and what
\* each task published stays in its own published record.
C21_LastWriterWins ==
    /\ LastWriterWins
    /\ OwnRecordKept
    /\ \A t \in 1..Len(task_exs) :
        /\ (task_exs[t].name = "q1" /\ task_exs[t].state = SUCCESS) =>
                task_exs[t].published = {<<"greeting", <<"Hi">>>>}
        /\ (task_exs[t].name = "q2" /\ task_exs[t].state = SUCCESS) =>
                task_exs[t].published = {<<"greeting", <<"Yo">>>>}
        /\ (task_exs[t].name = "q4" /\ task_exs[t].state = SUCCESS) =>
                task_exs[t].published = {<<"result", <<"Yo", "Morpheus">>>>}

\* C21 witness: the four tasks ran one after another, q4 published the
\* greeting of q2, and q1 still has its own.
C21_Witness ==
    \E t1 \in 1..Len(task_exs), t4 \in 1..Len(task_exs) :
        /\ task_exs[t1].name = "q1"
        /\ task_exs[t1].published = {<<"greeting", <<"Hi">>>>}
        /\ task_exs[t4].name = "q4"
        /\ task_exs[t4].published = {<<"result", <<"Yo", "Morpheus">>>>}
        /\ wf_exs[task_exs[t4].workflow_execution_id].state = SUCCESS

\* The variables the task execution t declares to publish.
Declared(t) ==
    Keys(get_task(wf_exs[task_exs[t].workflow_execution_id].workflow_name,
                  task_exs[t].name).publish)

\* The task executions of w in the state `state`.
TasksInState(w, state) ==
    {t \in TasksOf(CurrentDb, w) : task_exs[t].state = state}

\* The output of w has every variable that a successful task execution of w
\* published, with the published value when one task alone published it,
\* and has no variable that only task executions in ERROR declare.
OutputOfSuccessfulTasks(w) ==
    /\ wf_exs[w].output.kind = "context"
    /\ \A t \in TasksInState(w, SUCCESS) :
        \A p \in task_exs[t].published :
            /\ p[1] \in Keys(wf_exs[w].output.vars)
            /\ (\A u \in TasksInState(w, SUCCESS) \ {t} :
                    p[1] \notin Keys(task_exs[u].published))
                => p \in wf_exs[w].output.vars
    /\ \A t \in TasksInState(w, SUCCESS) :
            Declared(t) \subseteq Keys(wf_exs[w].output.vars)
    /\ \A t \in TasksInState(w, ERROR) :
        \A var \in Declared(t) :
            (\A u \in TasksInState(w, SUCCESS) : var \notin Declared(u))
                => var \notin Keys(wf_exs[w].output.vars)

\* C22: the output of a workflow execution that the completion check left
\* in SUCCESS has every variable that a successful task execution of it
\* published, on whatever branch, and no variable that only task executions
\* in ERROR declare to publish. (An execution that a stop request left in
\* SUCCESS has the variables published up to the stop.)
C22_OutputOfSuccessfulTasks ==
    \A w \in WfIds :
        (wf_exs[w].state = SUCCESS /\ wf_exs[w].state_info # Some("stopped"))
            => OutputOfSuccessfulTasks(w)

\* C22 as claimed: the output of every workflow execution in SUCCESS has the
\* published variables of every successful task execution.
C22_OutputOfEverySuccess ==
    \A w \in WfIds : wf_exs[w].state = SUCCESS => OutputOfSuccessfulTasks(w)

\* C22 witness: "fan" succeeded with f1 in ERROR, handled by f4: the output
\* has the variables of f2, f3, f4 and f5 and not the one of f1.
C22_Witness ==
    \E w \in WfIds :
        /\ wf_exs[w].state = SUCCESS
        /\ \E t \in TasksInState(w, ERROR) : task_exs[t].name = "f1"
        /\ Keys(wf_exs[w].output.vars) = {"var2", "var3", "var4", "var5"}
        /\ <<"var4", <<"4">>>> \in wf_exs[w].output.vars

\* ------------------------------------------------------------------------
\* Properties of with-items tasks.
\* ------------------------------------------------------------------------
\* The task executions that are with-items over the empty list.
EmptyWithItems ==
    {t \in 1..Len(task_exs) :
        get_with_items(task_exs[t]) /\ get_count(task_exs[t].name) = 0}

\* C23: a with-items task over the empty list is never left incomplete: no
\* action execution exists for it, it is in SUCCESS with the empty list as
\* its result (which it publishes), and the workflow "wi", of which it is
\* the one task, is in SUCCESS with that output.
C23_EmptyWithItemsSucceeds ==
    \A t \in EmptyWithItems :
        LET w == task_exs[t].workflow_execution_id
        IN /\ task_exs[t].state = SUCCESS
           /\ \A a \in 1..Len(action_exs) :
                    action_exs[a].task_execution_id # t
           /\ get_task_execution_result(CurrentDb, t) = <<>>
           /\ task_exs[t].published = {<<"result", <<>>>>}
           /\ wf_exs[w].workflow_name = "wi" =>
                /\ wf_exs[w].state = SUCCESS
                /\ wf_exs[w].output.vars = {<<"result", <<>>>>}

\* C23 witness: the start of "wi" is through and its task has run.
C23_Witness ==
    /\ starting = None
    /\ raised = None
    /\ \E t \in EmptyWithItems :
            wf_exs[task_exs[t].workflow_execution_id].state = SUCCESS

\* The action executions of the task execution t with accepted = true, and
\* those that completed and have accepted = false.
AcceptedOf(t) ==
    {a \in 1..Len(action_exs) :
        action_exs[a].task_execution_id = t /\ action_exs[a].accepted}
DiscardedOf(t) ==
    {a \in 1..Len(action_exs) :
        /\ action_exs[a].task_execution_id = t
        /\ is_completed(action_exs[a].state)
        /\ ~action_exs[a].accepted}

\* C24: the result of a with-items task execution has one element for each
\* of its action executions with accepted = true, the output of that action
\* execution, in the order of the action executions, and nothing for an
\* action execution with accepted = false.
C24_ResultOfAcceptedOnly ==
    \A t \in 1..Len(task_exs) :
        get_with_items(task_exs[t]) =>
            LET result == get_task_execution_result(CurrentDb, t)
            IN /\ Len(result) = Cardinality(AcceptedOf(t))
               /\ \A a \in AcceptedOf(t) :
                    result[1 + Cardinality({b \in AcceptedOf(t) : b < a})] =
                        ActionOutput(CurrentDb,
                                     task_exs[t].workflow_execution_id, a)

\* C24 witness: a with-items task was rerun with reset; its failed action
\* execution is no longer accepted, the new one succeeded, and the result
\* is the output of the new one alone.
C24_Witness ==
    \E t \in 1..Len(task_exs) :
        /\ get_with_items(task_exs[t])
        /\ task_exs[t].state = SUCCESS
        /\ DiscardedOf(t) # {}
        /\ get_task_execution_result(CurrentDb, t) = <<"item">>

\* ------------------------------------------------------------------------
\* Properties of tasks with several inbound transitions.
\* ------------------------------------------------------------------------
\* The tasks of the workflow of w without join that some transition leads
\* to.
TargetsWithoutJoin(w) ==
    {n \in get_tasks(wf_exs[w].workflow_name) :
        /\ get_task(wf_exs[w].workflow_name, n).join = None
        /\ InboundTasks(wf_exs[w].workflow_name, n) # {}}

\* The task executions of the task n that the completion of the task
\* execution u started: they run in the context u left.
StartedBy(db, w, u, n) ==
    {t \in TasksOf(db, w) :
        /\ db.task[t].name = n
        /\ db.task[t].in_context = TaskContext(db, u)
        /\ db.task[t].in_vars = evaluate_task_outbound_context(db, u)}

\* While no task was run again: a task without join has one task execution
\* for each completed task with a transition to it, in the context of that
\* task, and no other.
OneExecutionPerInbound ==
    \A w \in WfIds : \A n \in TargetsWithoutJoin(w) :
        /\ Cardinality(ExecutionsOf(w, n))
                = Cardinality(CompletedInbound(CurrentDb, w, n))
        /\ \A u \in CompletedInbound(CurrentDb, w, n) :
                Cardinality(StartedBy(CurrentDb, w, u, n)) = 1

\* The step in which the task execution u completes in a RUNNING workflow
\* creates one task execution for each task without join that the
\* transitions of u lead to, in the context u left.
CompletionStartsTargets ==
    \A u \in 1..Len(task_exs) :
        LET w == task_exs[u].workflow_execution_id
            created == (Len(task_exs) + 1)..Len(task_exs')
        IN (/\ ~is_completed(task_exs[u].state)
            /\ is_completed(task_exs'[u].state)
            /\ wf_exs[w].state = RUNNING) =>
                \A n \in TargetsWithoutJoin(w) :
                    Cardinality(StartedBy(NextDb, w, u, n) \cap created) =
                        IF n \in NextTasks(wf_exs[w].workflow_name,
                                           task_exs'[u])
                        THEN 1 ELSE 0

\* C25: a task without join is executed once for each completed task with a
\* transition to it: each completion creates a task execution of its own
\* for it, started with the context of the task that completed, so that k
\* completed inbound tasks leave k task executions.
C25_OneExecutionPerInbound ==
    /\ [](Reruns = 0 => OneExecutionPerInbound)
    /\ [][CompletionStartsTargets]_vars

\* C25 witness: f1 and f3 of "fan" failed, and f4, the target of both, has
\* two task executions, one in the context of each.
C25_Witness ==
    \E w \in WfIds : \E t \in ExecutionsOf(w, "f4"), u \in ExecutionsOf(w, "f4") :
        /\ task_exs[t].in_context = {"f1"}
        /\ task_exs[u].in_context = {"f3"}
        /\ Cardinality(ExecutionsOf(w, "f4")) = 2
        /\ Reruns = 0


\* ------------------------------------------------------------------------
\* Properties of the specification parser
\* ------------------------------------------------------------------------
\* The versions of ALL_VERSIONS, and the default of an absent key.
Supported(version) ==
    version = Absent \/ \E v \in ALL_VERSIONS : Equals(version, v)

\* C26: a spec factory applied to a dictionary whose version is supported
\* ('2.0' when the key is absent) returns a specification object, and for
\* every other version value it fails with DSLParsingException; it never
\* returns None and never fails with another error type.
C26_FactoriesNeverReturnNone ==
    parsing.outcome # NotCalled =>
        IF Supported(parsing.version)
        THEN parsing.outcome =
                 Returned(StrValue(<<SpecClassOf[parsing.factory]>>))
        ELSE parsing.outcome = Raised(DSLParsingException)

\* ------------------------------------------------------------------------
\* Properties of the completion check
\* ------------------------------------------------------------------------
\* The step completes the workflow execution w, and not on a stop request.
CompletedByCheck(w) ==
    /\ ~is_completed(wf_exs[w].state)
    /\ is_completed(wf_exs'[w].state)
    /\ wf_exs'[w].state_info # Some("stopped")

\* The task executions of w after the step that are incomplete and not
\* WAITING.
RunningAfter(w) ==
    {t \in 1..Len(task_exs') :
        /\ task_exs'[t].workflow_execution_id = w
        /\ ~is_completed(task_exs'[t].state)
        /\ ~is_waiting(task_exs'[t].state)}

\* C27: the completion check never moves a workflow execution to SUCCESS or
\* ERROR while one of its task executions is incomplete and in a state
\* other than WAITING.
C27_NotCompletedWhileTaskRuns ==
    [][\A w \in WfIds : CompletedByCheck(w) => RunningAfter(w) = {}]_vars

\* A workflow execution completed by the check, every task of the workflow
\* having run.
C27_Witness ==
    \E w \in WfIds :
        /\ wf_exs[w].state = SUCCESS
        /\ wf_exs[w].state_info = None
        /\ Cardinality(TasksOf(CurrentDb, w)) >= 2
        /\ \A t \in TasksOf(CurrentDb, w) : task_exs[t].state = SUCCESS

\* The workflow executions one of whose task executions is WAITING.
WithWaitingTask ==
    {w \in WfIds :
        \E t \in TasksOf(CurrentDb, w) : is_waiting(task_exs[t].state)}

\* C28: a workflow whose incomplete task executions are all WAITING is
\* marked complete only when there are unhandled errors, and then it is
\* ERROR; a workflow execution is never SUCCESS while one of its task
\* executions is WAITING.
C28_WaitingCompletesOnlyInError ==
    \A w \in WithWaitingTask :
        /\ wf_exs[w].state # SUCCESS
        /\ is_completed(wf_exs[w].state) =>
                /\ wf_exs[w].state = ERROR
                /\ ~all_errors_handled(CurrentDb, w)

\* ------------------------------------------------------------------------
\* Properties of a paused workflow execution
\* ------------------------------------------------------------------------
\* The step completes the task execution t.
TaskCompletes(t) ==
    /\ ~is_completed(task_exs[t].state)
    /\ is_completed(task_exs'[t].state)

\* The step leaves w PAUSED with the task executions, action executions
\* and sub-workflow executions it had, and the controller has no command
\* for it.
StaysPaused(w) ==
    /\ wf_exs'[w].state = PAUSED
    /\ Len(task_exs') = Len(task_exs)
    /\ Len(action_exs') = Len(action_exs)
    /\ Len(wf_exs') = Len(wf_exs)
    /\ continue_workflow(Db(wf_exs', task_exs', action_exs', delayed_calls'),
                         w, None, TRUE) = <<>>

\* C29: while a workflow execution is PAUSED the controller emits no
\* commands, and the completion of one of its tasks leaves it PAUSED: no
\* task execution is created and the workflow is not completed.
C29_PausedStaysPaused ==
    /\ [](\A w \in WfIds :
            wf_exs[w].state = PAUSED =>
                continue_workflow(CurrentDb, w, None, TRUE) = <<>>)
    /\ [][\A t \in 1..Len(task_exs) :
            (/\ TaskCompletes(t)
             /\ wf_exs[task_exs[t].workflow_execution_id].state = PAUSED)
                => StaysPaused(task_exs[t].workflow_execution_id)]_vars

\* A task with transitions completed while its workflow execution was
\* PAUSED.
C29_Witness ==
    \E t \in 1..Len(task_exs) :
        /\ wf_exs[task_exs[t].workflow_execution_id].state = PAUSED
        /\ is_completed(task_exs[t].state)
        /\ ~task_exs[t].processed
        /\ NextTasks(wf_exs[task_exs[t].workflow_execution_id].workflow_name,
                     task_exs[t]) # {}
        /\ Len(task_exs) = 1

\* ------------------------------------------------------------------------
\* Properties of the processed flag
\* ------------------------------------------------------------------------
\* The completion of the task execution t has been consumed once for each
\* time t completed: each task its transitions lead to has a task
\* execution that the completion started, a join its one task execution.
ConsumedOnce(db, w, t) ==
    \A n \in NextTasks(db.wf[w].workflow_name, db.task[t]) :
        IF get_task(db.wf[w].workflow_name, n).join = None
        THEN Cardinality(StartedBy(db, w, t, n))
                \in 1..Len(ActionsOfTask(db, t))
        ELSE Cardinality({u \in TasksOf(db, w) : db.task[u].name = n}) = 1

\* No task execution of w is completed with processed = false, and the
\* completion of every completed one has been consumed.
AllConsumed(db, w) ==
    \A t \in TasksOf(db, w) :
        is_completed(db.task[t].state) =>
            /\ db.task[t].processed
            /\ ConsumedOnce(db, w, t)

\* Workflow.resume, or Workflow.rerun, on w returns in this step.
ResumeReturns(w) == ResumeWorkflow(w) /\ raised' = None
RerunReturns(w) ==
    \E t \in TasksOf(CurrentDb, w), reset \in BOOLEAN :
        RerunWorkflow(t, reset) /\ raised' = None

\* After Workflow.resume returns, while no task was run again.
ResumeConsumesAll ==
    [][\A w \in WfIds :
        (Reruns = 0 /\ ResumeReturns(w)) =>
            AllConsumed(Db(wf_exs', task_exs', action_exs', delayed_calls'),
                        w)]_vars

ResumeNeverPauses ==
    [][\A w \in WfIds : ResumeReturns(w) => wf_exs'[w].state # PAUSED]_vars

CallsFor(calls, w) == {i \in 1..Len(calls) : calls[i] = w}

\* The step takes w into SUCCESS or ERROR.
EntersCompleted(w) ==
    /\ ~is_completed(wf_exs[w].state)
    /\ is_completed(wf_exs'[w].state)

\* The step in which a sub-workflow execution enters SUCCESS or ERROR
\* schedules one call for it.
CompletionSchedulesCall ==
    \A w \in WfIds \ TopLevel :
        EntersCompleted(w) =>
            Cardinality(CallsFor(delayed_calls', w))
                = Cardinality(CallsFor(delayed_calls, w)) + 1

\* The call i delivers to the parent task, when that is not complete: for
\* SUCCESS the output as data, and the task succeeds; for ERROR the
\* state_info, or else the default message, as error, and the task fails
\* with it; in another state nothing is delivered.
DeliversResult(i) ==
    LET w == delayed_calls[i]
        pt == Val(wf_exs[w].task_execution_id)
        result == result_for_parent(CurrentDb, w)
    IN /\ wf_exs[w].state = SUCCESS =>
            /\ result = Some(ResultOf(Some(wf_exs[w].output), None))
            /\ ~is_completed(task_exs[pt].state) =>
                    /\ task_exs'[pt].state = SUCCESS
                    /\ task_exs'[pt].state_info = None
       /\ wf_exs[w].state = ERROR =>
            /\ Val(result).data = None
            /\ Val(result).error \in {wf_exs[w].state_info,
                                       Some(FailedSubworkflow)} \ {None}
            /\ ~is_completed(task_exs[pt].state) =>
                    /\ task_exs'[pt].state = ERROR
                    /\ task_exs'[pt].state_info = Val(result).error
       /\ ~is_completed(wf_exs[w].state) =>
            /\ result = None
            /\ wf_exs' = wf_exs
            /\ task_exs' = task_exs
            /\ action_exs' = action_exs

\* C32: a sub-workflow execution that reaches SUCCESS or ERROR schedules a
\* call that delivers its result to the parent, the output as data for
\* SUCCESS and the state_info or a default message as error for ERROR; a
\* top-level workflow schedules none; a call that finds the sub-workflow in
\* neither state delivers nothing.
C32_SubWorkflowResultDelivered ==
    /\ [](\A w \in TopLevel : CallsFor(delayed_calls, w) = {})
    /\ [][CompletionSchedulesCall]_vars
    /\ [][\A i \in 1..Len(delayed_calls) :
            SendResultToParent(i) => DeliversResult(i)]_vars

\* The parent task failed with the default message of a sub-workflow that
\* was stopped in ERROR without a message, and the call is gone.
C32_Witness ==
    \E t \in 1..Len(task_exs) :
        /\ task_exs[t].name = "p1"
        /\ task_exs[t].state = ERROR
        /\ task_exs[t].state_info = Some(FailedSubworkflow)
        /\ delayed_calls = <<>>

\* ------------------------------------------------------------------------
\* Properties of stop
\* ------------------------------------------------------------------------
\* C33: failing a workflow execution that is in SUCCESS or ERROR is a no-op:
\* its state, state_info and output are unchanged, nothing is raised and
\* no result is scheduled for a parent workflow.
C33_FailCompletedIsNoop ==
    [][\A w \in WfIds, msg \in {None, Some("stopped")} :
        (/\ is_completed(wf_exs[w].state)
         /\ StopWorkflowWith(w, ERROR, msg)) =>
            /\ wf_exs' = wf_exs
            /\ task_exs' = task_exs
            /\ delayed_calls' = delayed_calls
            /\ raised' = None]_vars

\* A sub-workflow execution completed by its tasks, in SUCCESS, the call
\* that delivers its result pending, after an operation that raised
\* nothing: a stop with ERROR finds it so and leaves it so.
C33_Witness ==
    \E w \in WfIds \ TopLevel :
        /\ wf_exs[w].state = SUCCESS
        /\ wf_exs[w].state_info = None
        /\ wf_exs[w].output.kind = "context"
        /\ Cardinality(CallsFor(delayed_calls, w)) = 1
        /\ raised = None

\* ------------------------------------------------------------------------
\* Properties of a cron sweep in which a call raises
\* ------------------------------------------------------------------------
\* The step ends the iteration of engine e for a trigger.
EndsIteration(e) ==
    /\ engine[e].pc \in {"delete_exec", "update_exec", "advanced"}
    /\ engine'[e].pc \in {"idle", "loop"}

\* C34: within a sweep an exception raised while advancing or firing one
\* trigger does not keep the remaining due triggers of the sweep from
\* being processed, and the auth context is none after every trigger.
C34_SweepGoesOn ==
    [][\A e \in Engines :
        EndsIteration(e) =>
            /\ engine'[e].ctx = None
            /\ engine'[e].todo = engine[e].todo
            /\ engine'[e].pc = "loop" <=> engine[e].todo # <<>>]_vars

\* The auth context of an engine is none after every trigger.
ContextResetAfterTrigger ==
    [][\A e \in Engines : EndsIteration(e) => engine'[e].ctx = None]_vars
\* ------------------------------------------------------------------------
\* A firing that fails is lost
\* ------------------------------------------------------------------------
\* The firings: a trigger and the next_execution_time it was due at.
Firings == TriggerNames \X Times

\* The firing engine e is processing.
FiringOf(e) ==
    <<Val(engine[e].ct).name, Val(engine[e].ct).next_execution_time>>

\* The engines that have advanced the trigger for firing k and are about to
\* call start_workflow.
AboutToStart(k) ==
    {e \in Engines : /\ engine[e].pc = "advanced"
                     /\ engine[e].modified
                     /\ FiringOf(e) = k}

\* The stored trigger is past firing k: deleted, or with a later
\* next_execution_time.
AdvancedPast(table, k) ==
    \/ table[k[1]] = None
    \/ Val(table[k[1]]).next_execution_time > k[2]

\* Firing k is lost: the trigger is past it, no workflow was started for it
\* and no engine is about to start one.
Lost(k) ==
    /\ AdvancedPast(cron_triggers, k)
    /\ started[k] = 0
    /\ AboutToStart(k) = {}

\* The step is the call of start_workflow by engine e, returning.
StartsWorkflow(e) ==
    /\ engine[e].pc = "advanced"
    /\ engine[e].modified
    /\ engine'[e].pc # "advanced"
    /\ started' # started

\* The step is the call of start_workflow by engine e, raising.
FailsToStart(e) ==
    /\ engine[e].pc = "advanced"
    /\ engine[e].modified
    /\ engine'[e].pc # "advanced"
    /\ started' = started

\* C36: the trigger is advanced or deleted before its workflow is started,
\* and the advance is never undone; when start_workflow raises after the
\* advance the firing is lost for good: the trigger stays as advanced and no
\* engine starts the workflow for the old next_execution_time later.
C36_FailedFiringIsLost ==
    [][/\ \A e \in Engines :
            /\ StartsWorkflow(e) =>
                    AdvancedPast(cron_triggers, FiringOf(e))
            /\ FailsToStart(e) =>
                    /\ cron_triggers' = cron_triggers
                    /\ \A k \in {FiringOf(e)} : Lost(k)'
       /\ \A k \in Firings :
            /\ AdvancedPast(cron_triggers, k) =>
                    AdvancedPast(cron_triggers', k)
            /\ Lost(k) => Lost(k)']_vars

\* start_workflow has raised for a trigger that was updated and for one
\* that was deleted, and time has passed since.
C36_Witness ==
    /\ now > 1
    /\ \E k \in Firings : Lost(k) /\ cron_triggers[k[1]] = None
    /\ \E k \in Firings : Lost(k) /\ cron_triggers[k[1]] # None
\* ------------------------------------------------------------------------
\* A trigger stored with no executions left
\* ------------------------------------------------------------------------
\* A stored count of 0 is the count the trigger was created with: an update
\* writes a count only when it is not 0 after the decrement.
StoredZero(n) == created_with[n] = Some(0)

\* C37: a trigger whose stored remaining_executions is already 0 when a
\* sweep picks it up is deleted without its workflow being started.
C37_ZeroCountNeverFires ==
    \A k \in Firings : StoredZero(k[1]) => started[k] = 0
\* ------------------------------------------------------------------------
\* One row for each action definition name
\* ------------------------------------------------------------------------
\* Callers creating action definitions.
ActionNext ==
    \E c \in Callers :
        \/ \E values \in ActionValues : CreateActionDefinition(c, values)
        \/ \E values \in ActionValues : BeginCreateOrUpdate(c, values)
        \/ FinishCreate(c)
        \/ FinishUpdate(c)

ActionSpec == Init /\ [][ActionNext]_vars

\* At most one row is stored for a name.
OneRowPerName ==
    \A name \in ActionNames :
        Cardinality(RowsNamed(action_definitions, name)) <= 1

\* The step is a whole call of create_action_definition by caller c.
CreateCalled(c) ==
    /\ caller[c].pc = "idle"
    /\ caller'[c].calls = caller[c].calls + 1

\* The step ends a call of create_or_update_action_definition by caller c
\* that found no row for the name, with no row inserted since but by
\* another call of create_or_update_action_definition.
CreateOrUpdateCreated(c) ==
    /\ caller[c].pc = "create"
    /\ caller'[c].pc = "idle"
    /\ \A i \in RowsNamed(action_definitions, caller[c].name) :
            action_definitions[i].by = "create_or_update"

\* create on a name that has a row fails with the duplicate-entry error and
\* leaves the table as it was.
CreateOnExistingFails ==
    [][\A c \in Callers :
        (CreateCalled(c) /\ RowsNamed(action_definitions, caller'[c].name) # {})
            => /\ caller'[c].exc = DBDuplicateEntryException
               /\ action_definitions' = action_definitions]_vars

\* C35: at most one row exists for a definition name: create on an
\* existing name fails with the duplicate-entry error and leaves the row
\* unchanged, and create_or_update by two callers for the same absent name
\* leaves exactly one row without a failure of either caller.
C35_OneRowAndNoFailure ==
    [][/\ OneRowPerName'
       /\ \A c \in Callers :
            /\ (CreateCalled(c)
                    /\ RowsNamed(action_definitions, caller'[c].name) # {})
                => /\ caller'[c].exc = DBDuplicateEntryException
                   /\ action_definitions' = action_definitions
            /\ CreateOrUpdateCreated(c)
                => /\ Cardinality(RowsNamed(action_definitions',
                                            caller[c].name)) = 1
                   /\ caller'[c].exc = None]_vars
\* ------------------------------------------------------------------------
\* A rejected stop with SUCCESS
\* ------------------------------------------------------------------------
\* The step is stop_workflow(w, SUCCESS) raising WorkflowException.
StopRejected(w) ==
    /\ StopWorkflow(w, SUCCESS)
    /\ raised' # None
    /\ Val(raised').type = "WorkflowException"

\* C38: a stop with SUCCESS that is rejected because SUCCESS cannot follow
\* the current state leaves the output, the state and the state_info of the
\* workflow execution as they were.
C38_RejectedStopChangesNothing ==
    [][\A w \in WfIds :
        StopRejected(w) =>
            /\ wf_exs'[w].output = wf_exs[w].output
            /\ wf_exs'[w].state = wf_exs[w].state
            /\ wf_exs'[w].state_info = wf_exs[w].state_info]_vars

\* The rejected stop leaves the state and the state_info as they were.
RejectedStopKeepsState ==
    [][\A w \in WfIds :
        StopRejected(w) =>
            /\ wf_exs'[w].state = wf_exs[w].state
            /\ wf_exs'[w].state_info = wf_exs[w].state_info]_vars
\* ------------------------------------------------------------------------
\* A recursive change of state that an ancestor rejects
\* ------------------------------------------------------------------------
\* The step is a resume of the sub-workflow w, or a rerun of one of its
\* tasks, that raises the WorkflowException of another workflow execution:
\* an ancestor has rejected the transition.
RejectedByAncestor(w) ==
    /\ wf_exs[w].task_execution_id # None
    /\ \/ ResumeWorkflow(w)
       \/ \E t \in 1..Len(task_exs) :
            /\ task_exs[t].workflow_execution_id = w
            /\ RerunWorkflow(t, TRUE)
    /\ raised' # None
    /\ Val(raised').type = "WorkflowException"
    /\ Val(raised').execution_id # None
    /\ Val(raised').execution_id # Some(w)

\* C39: a recursive change of state is all-or-nothing: when an ancestor
\* rejects the transition no workflow execution and no task execution has
\* changed state, the sub-workflow the operation was invoked on included.
C39_RecursiveAllOrNothing ==
    [][\A w \in WfIds :
        RejectedByAncestor(w) =>
            /\ \A v \in WfIds : wf_exs'[v].state = wf_exs[v].state
            /\ \A t \in 1..Len(task_exs) :
                    task_exs'[t].state = task_exs[t].state]_vars

\* When an ancestor rejects, the ancestors and the parent tasks keep their
\* states.
AncestorsKeepState ==
    [][\A w \in WfIds :
        RejectedByAncestor(w) =>
            /\ \A v \in WfIds \ {w} : wf_exs'[v].state = wf_exs[v].state
            /\ \A t \in 1..Len(task_exs) :
                    task_exs[t].workflow_execution_id # w =>
                        task_exs'[t].state = task_exs[t].state]_vars
\* ------------------------------------------------------------------------
\* One delivery for each completion of a sub-workflow
\* ------------------------------------------------------------------------
\* C40: each time a sub-workflow enters SUCCESS or ERROR its parent receives
\* on_action_complete for that completion at most once, also when the
\* sub-workflow has been rerun and has completed again before the call
\* scheduled for the earlier completion has run.
C40_DeliveredOncePerCompletion ==
    \A w \in WfIds \ TopLevel : wf_exs[w].delivered <= 1
====
